---------------------------- MODULE Spec2Model ----------------------------
(***************************************************************************)
(* Model of the text pipeline of src/Akan/LocalAIModel_app.py              *)
(* (TruthInTranslation): section extraction, bullet-line selection, line   *)
(* classification, token splitting, colouring and row assembly.            *)
(*                                                                         *)
(* A Python str is modelled as a sequence of characters, each character a  *)
(* one-character TLA+ string; the character U+2022 (bullet glyph) is the   *)
(* element BULLET.  A Python list is a sequence, a dict a function.        *)
(*                                                                         *)
(* The functions of the pipeline are pure.  The state is one call frame:   *)
(*   pc    "call" before the function in call.fn ran, "done" after it      *)
(*   call  the function's name and its arguments                           *)
(*   ret   the value it returned (<<>> while pc = "call")                  *)
(***************************************************************************)
EXTENDS Integers, Sequences, FiniteSets, TLC

VARIABLES pc, call, ret

vars == <<pc, call, ret>>

(***************************************************************************)
(* Bounds of the explored inputs.                                          *)
(***************************************************************************)
\* longest ai_list / lit_list handed to separate_ai_vs_literal
MaxLines == 2
\* number of pieces a cell text given to extract_section_by_bold_headings is
\* concatenated from
MaxExtractChunks == 4
\* longest text block given to parse_bullet_lines, in characters
MaxBlockLen == 5
\* number of pieces a bullet line given to the token splitters is
\* concatenated from
MaxSplitChunks == 5

(***************************************************************************)
(* Characters and generic string helpers.                                  *)
(***************************************************************************)
BULLET == "U+2022"

Range(s) == {s[i] : i \in 1..Len(s)}

\* s[i:] of Python, i a 0-based offset
Drop(s, i) == SubSeq(s, i + 1, Len(s))

\* s[:i] of Python
Take(s, i) == SubSeq(s, 1, i)

RECURSIVE Flatten(_)
\* "".join(chunks)
Flatten(chunks) ==
    IF chunks = <<>> THEN <<>> ELSE Head(chunks) \o Flatten(Tail(chunks))

\* all sequences over S of length 0..n
SeqUpTo(S, n) == UNION {[1..k -> S] : k \in 0..n}

\* number of times v occurs in sequence s
Occ(s, v) == Cardinality({i \in 1..Len(s) : s[i] = v})

(***************************************************************************)
(* 5) separate_ai_vs_literal                                               *)
(***************************************************************************)
ARROW == <<"=", ">">>

RECURSIVE CountFrom(_, _, _)
\* str.count(sub) scanning from 1-based position i: occurrences are counted
\* left to right and do not overlap
CountFrom(s, sub, i) ==
    IF i + Len(sub) - 1 > Len(s) THEN 0
    ELSE IF SubSeq(s, i, i + Len(sub) - 1) = sub
         THEN 1 + CountFrom(s, sub, i + Len(sub))
         ELSE CountFrom(s, sub, i + 1)

\* line.count("=>")
arrow_count(line) == CountFrom(line, ARROW, 1)

RECURSIVE separate_loop_ai(_, _)
\* first loop: for line in ai_list (acc = <<final_ai, final_lit>>)
separate_loop_ai(list, acc) ==
    IF list = <<>> THEN acc
    ELSE LET line == Head(list) IN
         IF arrow_count(line) >= 2
         THEN separate_loop_ai(Tail(list), <<acc[1], Append(acc[2], line)>>)
         ELSE separate_loop_ai(Tail(list), <<Append(acc[1], line), acc[2]>>)

RECURSIVE separate_loop_lit(_, _)
\* second loop: for line in lit_list
separate_loop_lit(list, acc) ==
    IF list = <<>> THEN acc
    ELSE LET line == Head(list) IN
         IF arrow_count(line) < 2
         THEN separate_loop_lit(Tail(list), <<Append(acc[1], line), acc[2]>>)
         ELSE separate_loop_lit(Tail(list), <<acc[1], Append(acc[2], line)>>)

RECURSIVE separate_loop_gt2(_, _)
\* mutant loop: the threshold written as > 2
separate_loop_gt2(list, acc) ==
    IF list = <<>> THEN acc
    ELSE LET line == Head(list) IN
         IF arrow_count(line) > 2
         THEN separate_loop_gt2(Tail(list), <<acc[1], Append(acc[2], line)>>)
         ELSE separate_loop_gt2(Tail(list), <<Append(acc[1], line), acc[2]>>)

\* mutant of separate_ai_vs_literal: lines with exactly two arrows stay AI
separate_ai_vs_literal_gt2(ai_list, lit_list) ==
    separate_loop_gt2(lit_list, separate_loop_gt2(ai_list, <<<<>>, <<>>>>))

\* mutant of separate_ai_vs_literal: the literal list is walked first
separate_ai_vs_literal_swapped(ai_list, lit_list) ==
    separate_loop_ai(ai_list, separate_loop_lit(lit_list, <<<<>>, <<>>>>))

\* returns <<final_ai, final_lit>>
separate_ai_vs_literal(ai_list, lit_list) ==
    separate_loop_lit(lit_list, separate_loop_ai(ai_list, <<<<>>, <<>>>>))

\* bullet lines handed to the classifier, with 0, 1, 1, 2, 2 and 3 arrows
ClassifierLines ==
    { <<"-", " ", "a">>,                                       \* "- a"
      <<"-", " ", "a", " ", "=", ">", " ", "b">>,              \* "- a => b"
      <<"-", " ", "a", "=", ">", ">", "b", "=", " ", ">">>,    \* "- a=>>b= >"
      <<"-", " ", "a", "=", ">", "b", "=", ">", "c">>,         \* "- a=>b=>c"
      <<"=", ">", "=", "=", ">">>,                             \* "=>==>"
      <<"a", "=", ">", "b", "=", ">", "c", "=", ">", "d">> }   \* "a=>b=>c=>d"

InitClassify ==
    /\ pc = "call"
    /\ \E a \in SeqUpTo(ClassifierLines, MaxLines) :
       \E l \in SeqUpTo(ClassifierLines, MaxLines) :
          call = [fn |-> "separate_ai_vs_literal", ai_list |-> a, lit_list |-> l]
    /\ ret = <<>>

Call_separate_ai_vs_literal ==
    /\ pc = "call"
    /\ call.fn = "separate_ai_vs_literal"
    /\ ret' = separate_ai_vs_literal(call.ai_list, call.lit_list)
    /\ pc' = "done"
    /\ UNCHANGED call

NextClassify == Call_separate_ai_vs_literal

SpecClassify == InitClassify /\ [][NextClassify]_vars

\* positions at which "=>" starts in line
ArrowPositions(line) ==
    {i \in 1..(Len(line) - 1) : line[i] = "=" /\ line[i + 1] = ">"}

DoneSeparate == pc = "done" /\ call.fn = "separate_ai_vs_literal"

\* C1: every input line lands in exactly one output bucket, chosen only by
\* its number of "=>": two or more -> literal bucket (ret[2]), fewer -> AI
\* bucket (ret[1]), whichever list it came from; nothing is lost, duplicated
\* or invented.
C1_BucketByArrowCount ==
    DoneSeparate =>
        LET ai == call.ai_list
            lit == call.lit_list
            final_ai == ret[1]
            final_lit == ret[2]
        IN  /\ Len(final_ai) + Len(final_lit) = Len(ai) + Len(lit)
            /\ \A ln \in Range(ai) \cup Range(lit) \cup Range(final_ai) \cup Range(final_lit) :
                 /\ Occ(final_ai, ln) + Occ(final_lit, ln) = Occ(ai, ln) + Occ(lit, ln)
                 /\ Cardinality(ArrowPositions(ln)) >= 2 =>
                       Occ(final_ai, ln) = 0
                 /\ Cardinality(ArrowPositions(ln)) < 2 =>
                       Occ(final_lit, ln) = 0

\* C1 witness: a two-arrow line arrived in ai_list and a one-arrow line in
\* lit_list, and both were moved to the other bucket.
C1_Witness ==
    /\ DoneSeparate
    /\ \E i \in 1..Len(call.ai_list) :
         /\ Cardinality(ArrowPositions(call.ai_list[i])) = 2
         /\ Occ(ret[2], call.ai_list[i]) > 0
    /\ \E i \in 1..Len(call.lit_list) :
         /\ Cardinality(ArrowPositions(call.lit_list[i])) = 1
         /\ Occ(ret[1], call.lit_list[i]) > 0

LowCount(line) == Cardinality(ArrowPositions(line)) < 2

HighCount(line) == Cardinality(ArrowPositions(line)) >= 2

\* C2: each output bucket is the matching lines of input 1 in their order
\* followed by the matching lines of input 2 in their order.
C2_ConcatenationOrder ==
    DoneSeparate =>
        /\ ret[1] = SelectSeq(call.ai_list, LowCount) \o SelectSeq(call.lit_list, LowCount)
        /\ ret[2] = SelectSeq(call.ai_list, HighCount) \o SelectSeq(call.lit_list, HighCount)

\* C2 witness: both inputs contribute different lines to both buckets.
C2_Witness ==
    /\ DoneSeparate
    /\ Len(call.ai_list) = 2
    /\ Len(call.lit_list) = 2
    /\ Len(ret[1]) = 2
    /\ Len(ret[2]) = 2
    /\ ret[1][1] # ret[1][2]
    /\ ret[2][1] # ret[2][2]
    /\ LowCount(call.ai_list[2])
    /\ LowCount(call.lit_list[1])

(***************************************************************************)
(* 4) extract_section_by_bold_headings                                     *)
(***************************************************************************)
\* str.lower() / re.IGNORECASE on the ASCII letters
UpperToLower ==
    ("A" :> "a") @@ ("B" :> "b") @@ ("C" :> "c") @@ ("D" :> "d") @@ ("E" :> "e") @@ ("F" :> "f") @@
    ("G" :> "g") @@ ("H" :> "h") @@ ("I" :> "i") @@ ("J" :> "j") @@ ("K" :> "k") @@ ("L" :> "l") @@
    ("M" :> "m") @@ ("N" :> "n") @@ ("O" :> "o") @@ ("P" :> "p") @@ ("Q" :> "q") @@ ("R" :> "r") @@
    ("S" :> "s") @@ ("T" :> "t") @@ ("U" :> "u") @@ ("V" :> "v") @@ ("W" :> "w") @@ ("X" :> "x") @@
    ("Y" :> "y") @@ ("Z" :> "z")

Lower(c) == IF c \in DOMAIN UpperToLower THEN UpperToLower[c] ELSE c

\* s.lower()
LowerStr(s) == [i \in 1..Len(s) |-> Lower(s[i])]

\* the literal pattern pat (re.escape) matches text at 0-based offset p,
\* compared case-insensitively
MatchesAtI(text, pat, p) ==
    /\ p + Len(pat) <= Len(text)
    /\ \A k \in 1..Len(pat) : Lower(text[p + k]) = Lower(pat[k])

RECURSIVE SearchRangeI(_, _, _, _)
\* the leftmost offset in lo..hi at which pat matches, -1 when none; the
\* left half of the range is searched first
SearchRangeI(text, pat, lo, hi) ==
    IF lo > hi THEN -1
    ELSE IF lo = hi THEN (IF MatchesAtI(text, pat, lo) THEN lo ELSE -1)
    ELSE LET mid == (lo + hi) \div 2
             left == SearchRangeI(text, pat, lo, mid)
         IN  IF left # -1 THEN left ELSE SearchRangeI(text, pat, mid + 1, hi)

\* re.compile(re.escape(pat), re.IGNORECASE).search(text): the start offset
\* of the leftmost match, -1 for None
SearchI(text, pat) == SearchRangeI(text, pat, 0, Len(text) - Len(pat))

\* f"**{label}**"
BoldMarker(label) == <<"*", "*">> \o label \o <<"*", "*">>

RECURSIVE MinEndPos(_, _, _)
\* the loop over end_bold_list; min_end_pos = -1 models None
MinEndPos(subsequent, end_bold_list, min_end_pos) ==
    IF end_bold_list = <<>> THEN min_end_pos
    ELSE LET pos == SearchI(subsequent, BoldMarker(Head(end_bold_list)))
         IN  IF pos # -1 /\ (min_end_pos = -1 \/ pos < min_end_pos)
             THEN MinEndPos(subsequent, Tail(end_bold_list), pos)
             ELSE MinEndPos(subsequent, Tail(end_bold_list), min_end_pos)

RECURSIVE FirstListedEndPos(_, _)
\* mutant loop: stops at the first entry of end_bold_list that matches
FirstListedEndPos(subsequent, end_bold_list) ==
    IF end_bold_list = <<>> THEN -1
    ELSE LET pos == SearchI(subsequent, BoldMarker(Head(end_bold_list)))
         IN  IF pos # -1 THEN pos
             ELSE FirstListedEndPos(subsequent, Tail(end_bold_list))

\* mutant of extract_section_by_bold_headings: the end marker is chosen by
\* its place in end_bold_list, not by its offset
extract_section_first_listed(cell_text, start_bold, end_bold_list) ==
    IF cell_text = <<>> THEN <<>>
    ELSE LET start_marker == BoldMarker(start_bold)
             m_start == SearchI(cell_text, start_marker)
         IN  IF m_start = -1 THEN <<>>
             ELSE LET subsequent == Drop(cell_text, m_start + Len(start_marker))
                      end_pos == FirstListedEndPos(subsequent, end_bold_list)
                  IN  IF end_pos # -1 THEN Take(subsequent, end_pos)
                      ELSE subsequent

\* mutant of extract_section_by_bold_headings: a missing start marker is
\* not checked and the section is taken from the start of the text
extract_section_unchecked_start(cell_text, start_bold, end_bold_list) ==
    IF cell_text = <<>> THEN <<>>
    ELSE LET start_marker == BoldMarker(start_bold)
             m_start == SearchI(cell_text, start_marker)
             st_idx == IF m_start = -1 THEN 0 ELSE m_start + Len(start_marker)
             subsequent == Drop(cell_text, st_idx)
             min_end_pos == MinEndPos(subsequent, end_bold_list, -1)
         IN  IF min_end_pos # -1 THEN Take(subsequent, min_end_pos)
             ELSE subsequent

extract_section_by_bold_headings(cell_text, start_bold, end_bold_list) ==
    IF cell_text = <<>> THEN <<>>
    ELSE LET start_marker == BoldMarker(start_bold)
             m_start == SearchI(cell_text, start_marker)
         IN  IF m_start = -1 THEN <<>>
             ELSE LET st_idx == m_start + Len(start_marker)
                      subsequent == Drop(cell_text, st_idx)
                      min_end_pos == MinEndPos(subsequent, end_bold_list, -1)
                  IN  IF min_end_pos # -1 THEN Take(subsequent, min_end_pos)
                      ELSE subsequent

\* pieces the explored cell texts are concatenated from
ExtractChunks ==
    { <<"*", "*", "s", "*", "*">>,     \* "**s**"
      <<"*", "*", "S", "*", "*">>,     \* "**S**"
      <<"*", "*", "e", "*", "*">>,     \* "**e**"
      <<"*", "*", "f", "*", "*">>,     \* "**f**"
      <<"x">>, <<"e">>, <<"*">> }

\* labels searched for; "E" differs from the text's "e" only in case
ExtractStartLabels == { <<"s">>, <<"E">> }

ExtractEndLists ==
    { <<>>, << <<"e">> >>, << <<"f">> >>, << <<"e">>, <<"f">> >>,
      << <<"f">>, <<"E">> >>, << <<"s">>, <<"f">> >> }

InitExtract ==
    /\ pc = "call"
    /\ \E chunks \in SeqUpTo(ExtractChunks, MaxExtractChunks) :
       \E st \in ExtractStartLabels :
       \E ends \in ExtractEndLists :
          call = [fn |-> "extract_section_by_bold_headings",
                  cell_text |-> Flatten(chunks),
                  start_bold |-> st,
                  end_bold_list |-> ends]
    /\ ret = <<>>

Call_extract_section_by_bold_headings ==
    /\ pc = "call"
    /\ call.fn = "extract_section_by_bold_headings"
    /\ ret' = extract_section_by_bold_headings(call.cell_text, call.start_bold,
                                               call.end_bold_list)
    /\ pc' = "done"
    /\ UNCHANGED call

NextExtract == Call_extract_section_by_bold_headings

SpecExtract == InitExtract /\ [][NextExtract]_vars

DoneExtract == pc = "done" /\ call.fn = "extract_section_by_bold_headings"

\* 0-based offsets at which the bold marker of label occurs in text
\* (case-insensitively)
MarkerOffsets(text, label) ==
    {p \in 0..Len(text) : MatchesAtI(text, BoldMarker(label), p)}

SetMin(S) == CHOOSE x \in S : \A y \in S : x <= y

\* the text after the first occurrence of the start marker
AfterStart(text, label) ==
    Drop(text, SetMin(MarkerOffsets(text, label)) + Len(BoldMarker(label)))

\* offsets in rest at which the marker of any entry of ends occurs
EndOffsets(rest, ends) ==
    UNION {MarkerOffsets(rest, ends[i]) : i \in 1..Len(ends)}

\* C3: when the start marker is found the result runs from just after its
\* first occurrence to just before the end-marker occurrence with the
\* smallest offset over all entries of ends (whatever their order), or to
\* the end of the text when none occurs; so the result holds no complete
\* end marker.
C3_EarliestEndMarker ==
    (DoneExtract /\ MarkerOffsets(call.cell_text, call.start_bold) # {}) =>
        LET rest == AfterStart(call.cell_text, call.start_bold)
            offs == EndOffsets(rest, call.end_bold_list)
        IN  /\ ret = IF offs = {} THEN rest ELSE Take(rest, SetMin(offs))
            /\ EndOffsets(ret, call.end_bold_list) = {}

\* C3 witness: two different end markers occur after the start marker, the
\* one listed first in ends occurs later in the text, and the section was
\* cut at the earlier one, leaving a non-empty section.
C3_Witness ==
    /\ DoneExtract
    /\ MarkerOffsets(call.cell_text, call.start_bold) # {}
    /\ Len(call.end_bold_list) = 2
    /\ LET rest == AfterStart(call.cell_text, call.start_bold)
           o1 == MarkerOffsets(rest, call.end_bold_list[1])
           o2 == MarkerOffsets(rest, call.end_bold_list[2])
       IN  /\ o1 # {}
           /\ o2 # {}
           /\ SetMin(o2) < SetMin(o1)
           /\ ret = Take(rest, SetMin(o2))
           /\ ret # <<>>

\* C4: a text without the bold marker of the start label (the empty text
\* included) gives the empty string, whatever ends holds and even when end
\* markers occur in the text.
C4_MissingStartGivesEmpty ==
    (DoneExtract /\ MarkerOffsets(call.cell_text, call.start_bold) = {}) =>
        ret = <<>>

\* C4 witness: the start marker is absent from a non-empty text in which a
\* listed end marker occurs.
C4_Witness ==
    /\ DoneExtract
    /\ MarkerOffsets(call.cell_text, call.start_bold) = {}
    /\ call.cell_text # <<>>
    /\ EndOffsets(call.cell_text, call.end_bold_list) # {}
    /\ ret = <<>>

(***************************************************************************)
(* 4) parse_bullet_lines                                                   *)
(***************************************************************************)
\* Python's None, kept apart from every str (whose elements are single
\* characters)
PyNone == << "None" >>

\* the characters str.strip() and the regex class \s remove, among those
\* explored
Whitespace == {" ", "\t", "\n", "\r", "\f"}

\* the characters str.splitlines() breaks a line at, among those explored
LineBreaks == {"\n", "\r", "\f"}

RECURSIVE LStrip(_, _)
\* s.lstrip(chars)
LStrip(s, chars) ==
    IF s # <<>> /\ Head(s) \in chars THEN LStrip(Tail(s), chars) ELSE s

RECURSIVE RStrip(_, _)
\* s.rstrip(chars)
RStrip(s, chars) ==
    IF s # <<>> /\ s[Len(s)] \in chars
    THEN RStrip(SubSeq(s, 1, Len(s) - 1), chars) ELSE s

\* s.strip()
Strip(s) == RStrip(LStrip(s, Whitespace), Whitespace)

\* s.startswith(prefix)
StartsWith(s, prefix) ==
    Len(s) >= Len(prefix) /\ SubSeq(s, 1, Len(prefix)) = prefix

RECURSIVE FirstBreak(_, _, _)
\* the leftmost offset in lo..hi that holds a line break, -1 when none
FirstBreak(s, lo, hi) ==
    IF lo > hi THEN -1
    ELSE IF lo = hi THEN (IF s[lo + 1] \in LineBreaks THEN lo ELSE -1)
    ELSE LET mid == (lo + hi) \div 2
             left == FirstBreak(s, lo, mid)
         IN  IF left # -1 THEN left ELSE FirstBreak(s, mid + 1, hi)

\* 0-based offset of the first line break at or after offset j, Len(s) when
\* there is none
LineEnd(s, j) ==
    LET b == FirstBreak(s, j, Len(s) - 1) IN IF b = -1 THEN Len(s) ELSE b

RECURSIVE SplitLinesFrom(_, _)
\* str.splitlines() from offset i: "\r\n" is one terminator, terminators
\* are dropped, a final terminator opens no further line
SplitLinesFrom(s, i) ==
    IF i >= Len(s) THEN <<>>
    ELSE LET eol == LineEnd(s, i)
             next == IF eol < Len(s) /\ s[eol + 1] = "\r"
                        /\ eol + 1 < Len(s) /\ s[eol + 2] = "\n"
                     THEN eol + 2 ELSE eol + 1
         IN  <<SubSeq(s, i + 1, eol)>> \o SplitLinesFrom(s, next)

SplitLines(s) == SplitLinesFrom(s, 0)

DashSpace == <<"-", " ">>

BulletSpace == <<BULLET, " ">>

RECURSIVE bullet_loop(_)
\* the loop of parse_bullet_lines over text_block.splitlines()
bullet_loop(lns) ==
    IF lns = <<>> THEN <<>>
    ELSE LET ln == Head(lns)
             ln_stripped == Strip(ln)
         IN  IF StartsWith(ln_stripped, DashSpace) \/ StartsWith(ln_stripped, BulletSpace)
             THEN <<ln>> \o bullet_loop(Tail(lns))
             ELSE bullet_loop(Tail(lns))

RECURSIVE bullet_loop_stripped(_)
\* mutant loop: the stripped line is appended
bullet_loop_stripped(lns) ==
    IF lns = <<>> THEN <<>>
    ELSE LET ln == Head(lns)
             ln_stripped == Strip(ln)
         IN  IF StartsWith(ln_stripped, DashSpace) \/ StartsWith(ln_stripped, BulletSpace)
             THEN <<ln_stripped>> \o bullet_loop_stripped(Tail(lns))
             ELSE bullet_loop_stripped(Tail(lns))

\* mutant of parse_bullet_lines: returns the trimmed lines
parse_bullet_lines_stripped(text_block) ==
    IF text_block = PyNone \/ text_block = <<>> THEN <<>>
    ELSE bullet_loop_stripped(SplitLines(text_block))

parse_bullet_lines(text_block) ==
    IF text_block = PyNone \/ text_block = <<>> THEN <<>>
    ELSE bullet_loop(SplitLines(text_block))

\* characters the explored text blocks are written in
BlockAlphabet == {"-", BULLET, " ", "a", "\n", "\r"}

\* "- a\n  foo\n- b"
BlockExample == <<"-", " ", "a", "\n", " ", " ", "f", "o", "o", "\n", "-", " ", "b">>

\* "\t- a \r\n" BULLET " b\n-  \n-a\n  - c"
BlockLong == <<"\t", "-", " ", "a", " ", "\r", "\n", BULLET, " ", "b", "\n", "-", " ", " ", "\n", "-", "a", "\n", " ", " ", "-", " ", "c">>

InitBullets ==
    /\ pc = "call"
    /\ \E b \in SeqUpTo(BlockAlphabet, MaxBlockLen) \cup {BlockExample, BlockLong, PyNone} :
          call = [fn |-> "parse_bullet_lines", text_block |-> b]
    /\ ret = <<>>

Call_parse_bullet_lines ==
    /\ pc = "call"
    /\ call.fn = "parse_bullet_lines"
    /\ ret' = parse_bullet_lines(call.text_block)
    /\ pc' = "done"
    /\ UNCHANGED call

NextBullets == Call_parse_bullet_lines

SpecBullets == InitBullets /\ [][NextBullets]_vars

DoneBullets == pc = "done" /\ call.fn = "parse_bullet_lines"

\* the lines of block: <<i, j>> with block[i..j-1] a maximal run without a
\* line break (i = j for an empty line)
LineSpans(block) ==
    {sp \in (1..(Len(block) + 1)) \X (1..(Len(block) + 1)) :
        /\ sp[1] <= sp[2]
        /\ \A k \in sp[1]..(sp[2] - 1) : block[k] \notin LineBreaks
        /\ sp[1] = 1 \/ block[sp[1] - 1] \in LineBreaks
        /\ sp[2] = Len(block) + 1 \/ block[sp[2]] \in LineBreaks}

\* the trimmed form of seg starts with "- " or with the bullet glyph and a
\* space
IsBulletLine(seg) ==
    \E f \in 1..Len(seg) : \E g \in (f + 2)..Len(seg) :
        /\ \A k \in 1..(f - 1) : seg[k] \in Whitespace
        /\ seg[f] \in {"-", BULLET}
        /\ seg[f + 1] = " "
        /\ seg[g] \notin Whitespace

BulletSpans(block) ==
    {sp \in LineSpans(block) : IsBulletLine(SubSeq(block, sp[1], sp[2] - 1))}

\* the k-th span of S by start position
KthSpan(S, k) ==
    CHOOSE sp \in S : Cardinality({o \in S : o[1] < sp[1]}) = k - 1

\* C5: parse_bullet_lines returns, in order, exactly the lines of the block
\* whose trimmed form starts with "- " or the bullet glyph and a space, each
\* exactly as it stands in the block without its terminator; other lines
\* are dropped; empty and absent input give the empty list.
C5_BulletLinesVerbatim ==
    DoneBullets =>
        LET block == call.text_block IN
        /\ (block = PyNone \/ block = <<>>) => ret = <<>>
        /\ block = BlockExample => ret = <<<<"-", " ", "a">>, <<"-", " ", "b">>>>
        /\ block # PyNone =>
              LET S == BulletSpans(block) IN
              /\ Len(ret) = Cardinality(S)
              /\ \A k \in 1..Len(ret) :
                    LET sp == KthSpan(S, k) IN ret[k] = SubSeq(block, sp[1], sp[2] - 1)

\* C5 witness: a block with a bullet line that carries leading and trailing
\* whitespace, a non-bullet line that is dropped, and a second bullet line.
C5_Witness ==
    /\ DoneBullets
    /\ call.text_block # PyNone
    /\ Len(ret) >= 2
    /\ \E k \in 1..Len(ret) :
          /\ Head(ret[k]) \in Whitespace
          /\ ret[k][Len(ret[k])] \in Whitespace
    /\ Cardinality(LineSpans(call.text_block)) > Len(ret) + 1

(***************************************************************************)
(* 7) POS colour map                                                       *)
(***************************************************************************)
\* pronoun blue, verb red, adverb green, adjective darkorange,
\* conjunction teal, preposition brown, punctuation gray,
\* auxiliary verb purple, contraction darkred, noun navy, interjection olive
POS_COLOR_MAP ==
    (<<"p", "r", "o", "n", "o", "u", "n">>
        :> <<"b", "l", "u", "e">>) @@
    (<<"v", "e", "r", "b">>
        :> <<"r", "e", "d">>) @@
    (<<"a", "d", "v", "e", "r", "b">>
        :> <<"g", "r", "e", "e", "n">>) @@
    (<<"a", "d", "j", "e", "c", "t", "i", "v", "e">>
        :> <<"d", "a", "r", "k", "o", "r", "a", "n", "g", "e">>) @@
    (<<"c", "o", "n", "j", "u", "n", "c", "t", "i", "o", "n">>
        :> <<"t", "e", "a", "l">>) @@
    (<<"p", "r", "e", "p", "o", "s", "i", "t", "i", "o", "n">>
        :> <<"b", "r", "o", "w", "n">>) @@
    (<<"p", "u", "n", "c", "t", "u", "a", "t", "i", "o", "n">>
        :> <<"g", "r", "a", "y">>) @@
    (<<"a", "u", "x", "i", "l", "i", "a", "r", "y", " ", "v", "e", "r", "b">>
        :> <<"p", "u", "r", "p", "l", "e">>) @@
    (<<"c", "o", "n", "t", "r", "a", "c", "t", "i", "o", "n">>
        :> <<"d", "a", "r", "k", "r", "e", "d">>) @@
    (<<"n", "o", "u", "n">>
        :> <<"n", "a", "v", "y">>) @@
    (<<"i", "n", "t", "e", "r", "j", "e", "c", "t", "i", "o", "n">>
        :> <<"o", "l", "i", "v", "e">>)

(***************************************************************************)
(* 8), 9) token splitting and the bullet-off substring parsers             *)
(***************************************************************************)
\* the character class [\s\-•]
BulletClass == Whitespace \cup {"-", BULLET}

\* re.sub(r'^[\s\-•]+', '', line)
strip_bullet_prefix(line) == LStrip(line, BulletClass)

RECURSIVE FindArrow(_, _)
\* 0-based offset of the first "=>" at or after offset p, -1 when none
FindArrow(s, p) ==
    IF p + 2 > Len(s) THEN -1
    ELSE IF s[p + 1] = "=" /\ s[p + 2] = ">" THEN p
    ELSE FindArrow(s, p + 1)

RECURSIVE WsRunBack(_, _, _)
\* start of the whitespace run that ends just before offset j, not before
\* offset lo
WsRunBack(s, j, lo) ==
    IF j > lo /\ s[j] \in Whitespace THEN WsRunBack(s, j - 1, lo) ELSE j

RECURSIVE WsRunFwd(_, _)
\* end of the whitespace run that starts at offset j
WsRunFwd(s, j) ==
    IF j < Len(s) /\ s[j + 1] \in Whitespace THEN WsRunFwd(s, j + 1) ELSE j

RECURSIVE ReSplitFrom(_, _)
\* re.split(r'\s*=>\s*', s) from offset p: the leftmost match ends in the
\* first "=>" and takes the whitespace on both sides of it
ReSplitFrom(s, p) ==
    LET j == FindArrow(s, p) IN
    IF j = -1 THEN <<SubSeq(s, p + 1, Len(s))>>
    ELSE <<SubSeq(s, p + 1, WsRunBack(s, j, p))>> \o ReSplitFrom(s, WsRunFwd(s, j + 2))

re_split_arrow(s) == ReSplitFrom(s, 0)

QUOTE == "\""

\* p.strip().strip('"')
clean_part(p) == RStrip(LStrip(Strip(p), {QUOTE}), {QUOTE})

RECURSIVE keep_parts(_)
\* [p.strip().strip('"') for p in parts if p.strip()]
keep_parts(parts) ==
    IF parts = <<>> THEN <<>>
    ELSE IF Strip(Head(parts)) # <<>>
         THEN <<clean_part(Head(parts))>> \o keep_parts(Tail(parts))
         ELSE keep_parts(Tail(parts))

\* the fields of a line that has lost its bullet prefix
split_fields(line_nobullet) == keep_parts(re_split_arrow(line_nobullet))

RECURSIVE JoinSp(_)
\* " ".join(list)
JoinSp(list) ==
    IF list = <<>> THEN <<>>
    ELSE IF Len(list) = 1 THEN Head(list)
    ELSE Head(list) \o <<" ">> \o JoinSp(Tail(list))

\* f'<span style="color:{color};">{text}</span>'
SpanDq(color, text) ==
    <<"<", "s", "p", "a", "n", " ", "s", "t", "y", "l", "e", "=", "\"", "c", "o", "l", "o", "r", ":">>
    \o color \o <<";", "\"", ">">> \o text \o
    <<"<", "/", "s", "p", "a", "n", ">">>

\* f"<span style='color:{color};'>{raw_line}</span>"
SpanSq(color, text) ==
    <<"<", "s", "p", "a", "n", " ", "s", "t", "y", "l", "e", "=", "'", "c", "o", "l", "o", "r", ":">>
    \o color \o <<";", "'", ">">> \o text \o
    <<"<", "/", "s", "p", "a", "n", ">">>

\* mutant of color_or_plain: the colour switch is ignored
color_or_plain_always(text, pos_part, color_pos_on) ==
    IF pos_part \in DOMAIN POS_COLOR_MAP
    THEN SpanDq(POS_COLOR_MAP[pos_part], text)
    ELSE text

\* the closing if/else of the three substring parsers
color_or_plain(text, pos_part, color_pos_on) ==
    IF color_pos_on /\ pos_part \in DOMAIN POS_COLOR_MAP
    THEN SpanDq(POS_COLOR_MAP[pos_part], text)
    ELSE text

\* mutant of english_select: with three or more fields the first field is
\* kept in the payload
english_select_keep_first(parts) ==
    IF Len(parts) = 1 THEN [text |-> parts[1], pos |-> <<>>]
    ELSE IF Len(parts) = 2 THEN [text |-> parts[1], pos |-> LowerStr(parts[2])]
    ELSE [text |-> JoinSp(SubSeq(parts, 1, Len(parts) - 1)),
          pos |-> LowerStr(parts[Len(parts)])]

\* english_list joined and pos_part, for len(parts) >= 1
english_select(parts) ==
    IF Len(parts) = 1 THEN [text |-> parts[1], pos |-> <<>>]
    ELSE IF Len(parts) = 2 THEN [text |-> parts[1], pos |-> LowerStr(parts[2])]
    ELSE [text |-> JoinSp(SubSeq(parts, 2, Len(parts) - 1)),
          pos |-> LowerStr(parts[Len(parts)])]

parse_bullet_line_for_english_substring(line, color_pos_on) ==
    LET line_nobullet == strip_bullet_prefix(line)
        parts == split_fields(line_nobullet)
    IN  IF Len(parts) = 0 THEN <<>>
        ELSE LET sel == english_select(parts)
             IN  color_or_plain(sel.text, sel.pos, color_pos_on)

\* mutant of literal_select: the tag is taken from a second field too
literal_select_tag_always(parts) ==
    [text |-> parts[2], pos |-> LowerStr(parts[Len(parts)])]

\* text and pos_part, for len(parts) >= 2
literal_select(parts) ==
    [text |-> parts[2],
     pos |-> IF Len(parts) > 2 THEN LowerStr(parts[Len(parts)]) ELSE <<>>]

parse_bullet_line_for_literal_substring(line, color_pos_on) ==
    LET line_nobullet == strip_bullet_prefix(line)
        parts == split_fields(line_nobullet)
    IN  IF Len(parts) < 2 THEN line_nobullet
        ELSE LET sel == literal_select(parts)
             IN  color_or_plain(sel.text, sel.pos, color_pos_on)

\* akan_token and pos_part, for len(parts) >= 1
akan_select(parts) ==
    IF Len(parts) = 1 THEN [text |-> parts[1], pos |-> <<>>]
    ELSE IF Len(parts) = 2 THEN [text |-> parts[1], pos |-> LowerStr(parts[2])]
    ELSE [text |-> parts[1], pos |-> LowerStr(parts[Len(parts)])]

parse_bullet_line_for_akan_substring(line, color_pos_on) ==
    LET line_nobullet == strip_bullet_prefix(line)
        parts == split_fields(line_nobullet)
    IN  IF Len(parts) = 0 THEN <<>>
        ELSE LET sel == akan_select(parts)
             IN  color_or_plain(sel.text, sel.pos, color_pos_on)

colorize_full_bullet_line(line, color_pos_on) ==
    LET raw_line == LStrip(line, {"\t", " "})
        splitted == split_fields(raw_line)
    IN  IF Len(splitted) = 0 THEN raw_line
        ELSE LET pos_part == LowerStr(splitted[Len(splitted)])
             IN  IF color_pos_on /\ pos_part \in DOMAIN POS_COLOR_MAP
                 THEN SpanSq(POS_COLOR_MAP[pos_part], raw_line)
                 ELSE raw_line

\* pieces the explored bullet lines are concatenated from
SplitChunks ==
    { <<"-", " ">>, <<"a">>, <<"=", ">">>, <<" ">>, <<QUOTE>>,
      <<"V", "e", "r", "b">> }

\* longer bullet lines
SplitExamples ==
    { <<"a", " ", "=", ">", " ", "m", "i", "d", "1", " ", "=", ">", " ", "m", "i", "d", "2", " ", "=", ">", " ", "p", "o", "s">>,
      \* "a => mid1 => mid2 => pos"
      <<"t", "o", "k", " ", "=", ">", " ", "p", "o", "s">>,
      \* "tok => pos"
      <<"a", "k", "a", "n", " ", "=", ">", " ", "e", "n", "g", " ", "=", ">", " ", "p", "o", "s">>,
      \* "akan => eng => pos"
      <<"a", "k", "a", "n", " ", "=", ">", " ", "e", "n", "g">>,
      \* "akan => eng"
      <<"-", " ", "a", "k", "a", "n", " ", "=", ">", " ", "e", "n", "g", " ", "=", ">", " ", "V", "e", "r", "b">>,
      \* "- akan => eng => Verb"
      <<BULLET, " ", "\"", "w", "o", "\"", " ", "=", ">", " ", "\"", "y", "o", "u", "\"", " ", "=", ">", " ", "P", "r", "o", "n", "o", "u", "n">>,
      \* BULLET " \"wo\" => \"you\" => Pronoun"
      <<" ", " ", "-", " ", "b", "e", " ", "=", ">", " ", "i", "s", " ", "=", ">", " ", "A", "u", "x", "i", "l", "i", "a", "r", "y", " ", "V", "e", "r", "b">>,
      \* "  - be => is => Auxiliary Verb"
      <<"-", " ", "t", "o", "k", " ", "=", ">", " ", "\"", "\"", " ", "=", ">", " ", "v", "e", "r", "b">>,
      \* "- tok => \"\" => verb"
      <<"-", " ", "a", " ", "=", ">", " ", "b", " ", "=", ">", " ", "x", "y", "z">>,
      \* "- a => b => xyz"
      <<"-", " ", "g", "o", " ", " ", "=", ">", " ", " ", "N", "O", "U", "N">> }
      \* "- go  =>  NOUN"

SplitLinesExplored ==
    {Flatten(chunks) : chunks \in SeqUpTo(SplitChunks, MaxSplitChunks)} \cup SplitExamples

InitSplit ==
    /\ pc = "call"
    /\ call = [fn |-> "none"]
    /\ ret = <<>>

Call_parse_bullet_line_for_english_substring ==
    /\ pc = "call"
    /\ \E line \in SplitLinesExplored : \E color_pos_on \in BOOLEAN :
          /\ call' = [fn |-> "parse_bullet_line_for_english_substring",
                      line |-> line, color_pos_on |-> color_pos_on]
          /\ ret' = parse_bullet_line_for_english_substring(line, color_pos_on)
    /\ pc' = "done"

Call_parse_bullet_line_for_literal_substring ==
    /\ pc = "call"
    /\ \E line \in SplitLinesExplored : \E color_pos_on \in BOOLEAN :
          /\ call' = [fn |-> "parse_bullet_line_for_literal_substring",
                      line |-> line, color_pos_on |-> color_pos_on]
          /\ ret' = parse_bullet_line_for_literal_substring(line, color_pos_on)
    /\ pc' = "done"

Call_parse_bullet_line_for_akan_substring ==
    /\ pc = "call"
    /\ \E line \in SplitLinesExplored : \E color_pos_on \in BOOLEAN :
          /\ call' = [fn |-> "parse_bullet_line_for_akan_substring",
                      line |-> line, color_pos_on |-> color_pos_on]
          /\ ret' = parse_bullet_line_for_akan_substring(line, color_pos_on)
    /\ pc' = "done"

Call_colorize_full_bullet_line ==
    /\ pc = "call"
    /\ \E line \in SplitLinesExplored : \E color_pos_on \in BOOLEAN :
          /\ call' = [fn |-> "colorize_full_bullet_line",
                      line |-> line, color_pos_on |-> color_pos_on]
          /\ ret' = colorize_full_bullet_line(line, color_pos_on)
    /\ pc' = "done"

NextSplit ==
    \/ Call_parse_bullet_line_for_english_substring
    \/ Call_parse_bullet_line_for_literal_substring
    \/ Call_parse_bullet_line_for_akan_substring
    \/ Call_colorize_full_bullet_line

SpecSplit == InitSplit /\ [][NextSplit]_vars

DoneEnglish == pc = "done" /\ call.fn = "parse_bullet_line_for_english_substring"

DoneLiteral == pc = "done" /\ call.fn = "parse_bullet_line_for_literal_substring"

DoneAkan == pc = "done" /\ call.fn = "parse_bullet_line_for_akan_substring"

DoneColorize == pc = "done" /\ call.fn = "colorize_full_bullet_line"

\* the fields the substring parsers split line into
FieldsOf(line) == split_fields(strip_bullet_prefix(line))

\* payload shown with the colour of tag when colouring is on and the
\* lowercased tag is a key of the colour table, bare otherwise
Shown(payload, tag, color_pos_on) ==
    IF color_pos_on /\ LowerStr(tag) \in DOMAIN POS_COLOR_MAP
    THEN SpanDq(POS_COLOR_MAP[LowerStr(tag)], payload)
    ELSE payload

\* out is text wrapped in the double-quoted colour markup of some colour
HasMarkup(out) ==
    /\ StartsWith(out, <<"<", "s", "p", "a", "n", " ", "s", "t", "y", "l", "e", "=", "\"", "c", "o", "l", "o", "r", ":">>)
    /\ Len(out) >= 7
    /\ SubSeq(out, Len(out) - 6, Len(out)) = <<"<", "/", "s", "p", "a", "n", ">">>

\* C6: free-translation splitter: no field -> empty string; one field ->
\* field 0, no tag; two fields -> field 0 with field 1 as tag; three or more
\* -> fields 1..n-2 joined by single spaces with the last field as tag,
\* field 0 discarded.
C6_EnglishFieldPolicy ==
    DoneEnglish =>
        LET f == FieldsOf(call.line)
            n == Len(f)
            c == call.color_pos_on
        IN  /\ n = 0 => ret = <<>>
            /\ n = 1 => ret = f[1]
            /\ n = 2 => ret = Shown(f[1], f[2], c)
            /\ n >= 3 => ret = Shown(JoinSp([k \in 1..(n - 2) |-> f[k + 1]]), f[n], c)
            /\ (call.line = <<"a", " ", "=", ">", " ", "m", "i", "d", "1", " ", "=", ">", " ", "m", "i", "d", "2", " ", "=", ">", " ", "p", "o", "s">>
                /\ ~c) =>
                  ret = <<"m", "i", "d", "1", " ", "m", "i", "d", "2">>
            /\ (call.line = <<"t", "o", "k", " ", "=", ">", " ", "p", "o", "s">> /\ ~c) =>
                  ret = <<"t", "o", "k">>

\* C6 witness: a line of four fields whose two middle fields were joined and
\* whose first field was dropped.
C6_Witness ==
    /\ DoneEnglish
    /\ Len(FieldsOf(call.line)) = 4
    /\ ~call.color_pos_on
    /\ ret = FieldsOf(call.line)[2] \o <<" ">> \o FieldsOf(call.line)[3]
    /\ ret[1] # FieldsOf(call.line)[1][1]

\* C7: literal target-language splitter: fewer than two fields -> the line
\* without its leading bullet markers and whitespace, otherwise untouched
\* and uncoloured; two or more -> field 1, tagged by the last field only
\* when there are more than two fields.
C7_LiteralFieldPolicy ==
    DoneLiteral =>
        LET f == FieldsOf(call.line)
            n == Len(f)
            c == call.color_pos_on
            line == call.line
        IN  /\ n < 2 =>
                  \E k \in 0..Len(line) :
                      /\ ret = Drop(line, k)
                      /\ \A i \in 1..k : line[i] \in BulletClass
                      /\ ret = <<>> \/ ret[1] \notin BulletClass
            /\ n = 2 => ret = f[2]
            /\ n > 2 => ret = Shown(f[2], f[n], c)
            /\ line = <<"a", "k", "a", "n", " ", "=", ">", " ", "e", "n", "g">> =>
                  ret = <<"e", "n", "g">>
            /\ (line = <<"a", "k", "a", "n", " ", "=", ">", " ", "e", "n", "g", " ", "=", ">", " ", "p", "o", "s">> /\ ~c) =>
                  ret = <<"e", "n", "g">>

\* C7 witness: a two-field line whose second field is a recognised tag came
\* back as that field, bare, with colouring on.
C7_Witness ==
    /\ DoneLiteral
    /\ call.color_pos_on
    /\ Len(FieldsOf(call.line)) = 2
    /\ LowerStr(FieldsOf(call.line)[2]) \in DOMAIN POS_COLOR_MAP
    /\ ret = FieldsOf(call.line)[2]

\* what each splitter takes as payload and tag of line; has_tag is FALSE
\* when the policy gives no tag; split is FALSE when the splitter returns
\* before choosing a payload
PayloadAndTag(fn, line) ==
    LET f == FieldsOf(line)
        n == Len(f)
    IN  IF fn = "parse_bullet_line_for_literal_substring"
        THEN IF n < 2
             THEN [split |-> FALSE, has_tag |-> FALSE, tag |-> <<>>,
                   payload |-> strip_bullet_prefix(line)]
             ELSE [split |-> TRUE, has_tag |-> n > 2, tag |-> IF n > 2 THEN f[n] ELSE <<>>,
                   payload |-> f[2]]
        ELSE IF n = 0
             THEN [split |-> FALSE, has_tag |-> FALSE, tag |-> <<>>, payload |-> <<>>]
             ELSE [split |-> TRUE, has_tag |-> n >= 2, tag |-> IF n >= 2 THEN f[n] ELSE <<>>,
                   payload |-> IF fn = "parse_bullet_line_for_akan_substring" \/ n <= 2
                               THEN f[1]
                               ELSE JoinSp(SubSeq(f, 2, n - 1))]

DoneSplitter == DoneEnglish \/ DoneLiteral \/ DoneAkan

\* the lowercased tag is in the recognised tag set
TagRecognised(pt) == pt.has_tag /\ LowerStr(pt.tag) \in DOMAIN POS_COLOR_MAP

\* C8 as stated: in each splitter the payload carries colour markup exactly
\* when the lowercased tag is in the recognised set.
C8_ColourIffTagRecognised ==
    DoneSplitter =>
        LET pt == PayloadAndTag(call.fn, call.line)
        IN  HasMarkup(ret) <=> TagRecognised(pt)

\* C8 amended: the payload carries colour markup, in the colour the table
\* gives the lowercased tag, exactly when colouring is switched on and the
\* lowercased tag is in the recognised set; otherwise it is returned bare.
C8_ColourIffOnAndTagRecognised ==
    DoneSplitter =>
        LET pt == PayloadAndTag(call.fn, call.line)
        IN  /\ HasMarkup(ret) <=> (call.color_pos_on /\ TagRecognised(pt))
            /\ HasMarkup(ret) => ret = SpanDq(POS_COLOR_MAP[LowerStr(pt.tag)], pt.payload)
            /\ ~HasMarkup(ret) => ret = pt.payload
            /\ (call.line = <<"-", " ", "a", "k", "a", "n", " ", "=", ">", " ", "e", "n", "g", " ", "=", ">", " ", "V", "e", "r", "b">>
                /\ call.color_pos_on /\ DoneLiteral) =>
                  ret = SpanDq(<<"r", "e", "d">>, <<"e", "n", "g">>)
            /\ call.line = <<"-", " ", "a", " ", "=", ">", " ", "b", " ", "=", ">", " ", "x", "y", "z">>
                => ret \in {<<"a">>, <<"b">>}

\* C8 witness: with colouring on, a line tagged "Verb" came back in red.
C8_Witness ==
    /\ DoneSplitter
    /\ call.color_pos_on
    /\ PayloadAndTag(call.fn, call.line).has_tag
    /\ PayloadAndTag(call.fn, call.line).tag = <<"V", "e", "r", "b">>
    /\ ret = SpanDq(<<"r", "e", "d">>, PayloadAndTag(call.fn, call.line).payload)

\* the pieces re.split cuts the prefix-free line into, for each consumer
PiecesOf(fn, line) ==
    IF fn = "colorize_full_bullet_line"
    THEN re_split_arrow(LStrip(line, {"\t", " "}))
    ELSE re_split_arrow(strip_bullet_prefix(line))

\* the fields each consumer keeps
KeptFields(fn, line) ==
    IF fn = "colorize_full_bullet_line"
    THEN split_fields(LStrip(line, {"\t", " "}))
    ELSE FieldsOf(line)

\* piece trimmed, with one layer of surrounding straight quotes removed
OneLayerUnquoted(piece) ==
    LET t == Strip(piece)
    IN  IF Len(t) >= 2 /\ t[1] = QUOTE /\ t[Len(t)] = QUOTE
        THEN SubSeq(t, 2, Len(t) - 1)
        ELSE t

\* C9 as stated: every field kept is trimmed, is a piece of the split with
\* one layer of surrounding quotes removed, and is non-empty; a piece that
\* is empty after trimming and unquoting is never kept, so it is never the
\* payload.
C9_KeptFieldsNonEmpty ==
    (pc = "done") =>
        LET f == KeptFields(call.fn, call.line)
            pieces == PiecesOf(call.fn, call.line)
        IN  /\ \A k \in 1..Len(f) :
                  /\ f[k] # <<>>
                  /\ f[k] = Strip(f[k])
                  /\ \E i \in 1..Len(pieces) : f[k] = OneLayerUnquoted(pieces[i])
            /\ (DoneAkan /\ Len(f) >= 1 /\ ~call.color_pos_on) => ret # <<>>

(***************************************************************************)
(* 2) normalize_text                                                       *)
(***************************************************************************)
\* curly quotes and dashes, named by code point
LDQUO == "U+201C"

RDQUO == "U+201D"

LSQUO == "U+2018"

RSQUO == "U+2019"

ENDASH == "U+2013"

EMDASH == "U+2014"

\* mutant of normalize_char: the em dash is replaced by an en dash
normalize_char_em_to_en(c) ==
    IF c \in {LDQUO, RDQUO} THEN QUOTE
    ELSE IF c \in {LSQUO, RSQUO} THEN "'"
    ELSE IF c = ENDASH THEN "-"
    ELSE IF c = EMDASH THEN ENDASH
    ELSE c

\* the chain of str.replace calls, on one character
normalize_char(c) ==
    IF c \in {LDQUO, RDQUO} THEN QUOTE
    ELSE IF c \in {LSQUO, RSQUO} THEN "'"
    ELSE IF c \in {ENDASH, EMDASH} THEN "-"
    ELSE c

normalize_text(t) ==
    IF t = PyNone THEN <<>>
    ELSE [i \in 1..Len(t) |-> normalize_char(t[i])]

(***************************************************************************)
(* 4) extract_section_generic and the "English Translation:" fallback      *)
(***************************************************************************)
Digits == {"0", "1", "2", "3", "4", "5", "6", "7", "8", "9"}

RECURSIVE DigitRunFwd(_, _)
\* end of the run of digits that starts at offset j
DigitRunFwd(s, j) ==
    IF j < Len(s) /\ s[j + 1] \in Digits THEN DigitRunFwd(s, j + 1) ELSE j

\* \d+\. matches at offset q
NumberDotAt(s, q) ==
    LET d == DigitRunFwd(s, q) IN d > q /\ d < Len(s) /\ s[d + 1] = "."

\* the lookahead (?=\d+\.\s*|$) holds at offset q; $ also matches just
\* before a final "\n"
GenericStopAt(s, q) ==
    \/ NumberDotAt(s, q)
    \/ q = Len(s)
    \/ (q = Len(s) - 1 /\ s[Len(s)] = "\n")

RECURSIVE FirstGenericStop(_, _, _)
\* the leftmost offset in lo..hi at which the lookahead holds, -1 when none
FirstGenericStop(s, lo, hi) ==
    IF lo > hi THEN -1
    ELSE IF lo = hi THEN (IF GenericStopAt(s, lo) THEN lo ELSE -1)
    ELSE LET mid == (lo + hi) \div 2
             left == FirstGenericStop(s, lo, mid)
         IN  IF left # -1 THEN left ELSE FirstGenericStop(s, mid + 1, hi)

\* end offset of the lazy group (.*?) that starts at offset q: the lookahead
\* holds at Len(s) at the latest
LazyUntilGeneric(s, q) == FirstGenericStop(s, q, Len(s))

\* header, then \s*[:\-], match at offset i
GenericHeaderAt(s, header, i) ==
    /\ MatchesAtI(s, header, i)
    /\ LET j == WsRunFwd(s, i + Len(header))
       IN  j < Len(s) /\ s[j + 1] \in {":", "-"}

RECURSIVE FirstGenericHeader(_, _, _, _)
\* the leftmost offset in lo..hi at which GenericHeaderAt holds, -1 when none
FirstGenericHeader(s, header, lo, hi) ==
    IF lo > hi THEN -1
    ELSE IF lo = hi THEN (IF GenericHeaderAt(s, header, lo) THEN lo ELSE -1)
    ELSE LET mid == (lo + hi) \div 2
             left == FirstGenericHeader(s, header, lo, mid)
         IN  IF left # -1 THEN left ELSE FirstGenericHeader(s, header, mid + 1, hi)

\* pattern.search: <<start, end>> of group 1, <<-1, -1>> for no match
GenericSearch(s, header) ==
    LET i == FirstGenericHeader(s, header, 0, Len(s) - Len(header))
    IN  IF i = -1 THEN <<-1, -1>>
        ELSE LET j == WsRunFwd(s, i + Len(header))
                 p == WsRunFwd(s, j + 1)
             IN  <<p, LazyUntilGeneric(s, p)>>

extract_section_generic(cell_text, header, next_headers) ==
    LET m == GenericSearch(cell_text, header)
    IN  IF m[1] # -1 THEN Strip(SubSeq(cell_text, m[1] + 1, m[2]))
        ELSE <<>>

\* "English Translation:"
ENGLISH_TRANSLATION_COLON ==
    <<"E", "n", "g", "l", "i", "s", "h", " ", "T", "r", "a", "n", "s", "l",
      "a", "t", "i", "o", "n", ":">>

\* "Literal Translation Mapping:"
LITERAL_MAPPING_COLON ==
    <<"L", "i", "t", "e", "r", "a", "l", " ", "T", "r", "a", "n", "s", "l",
      "a", "t", "i", "o", "n", " ", "M", "a", "p", "p", "i", "n", "g", ":">>

\* \d+\.\s*Literal Translation Mapping: matches at offset q
LiteralHeadingAt(s, q) ==
    /\ NumberDotAt(s, q)
    /\ MatchesAtI(s, LITERAL_MAPPING_COLON, WsRunFwd(s, DigitRunFwd(s, q) + 1))

\* \s*(?=\d+\.\s*Literal Translation Mapping:|\s*$) matches at offset q
EnglishStopAt(s, q) ==
    LET r == WsRunFwd(s, q) IN r = Len(s) \/ LiteralHeadingAt(s, r)

RECURSIVE FirstEnglishStop(_, _, _)
\* the leftmost offset in lo..hi at which EnglishStopAt holds, -1 when none
FirstEnglishStop(s, lo, hi) ==
    IF lo > hi THEN -1
    ELSE IF lo = hi THEN (IF EnglishStopAt(s, lo) THEN lo ELSE -1)
    ELSE LET mid == (lo + hi) \div 2
             left == FirstEnglishStop(s, lo, mid)
         IN  IF left # -1 THEN left ELSE FirstEnglishStop(s, mid + 1, hi)

\* end offset of the lazy group (.*?) that starts at offset q: the stop
\* condition holds at Len(s) at the latest
LazyUntilEnglish(s, q) == FirstEnglishStop(s, q, Len(s))

\* group 1 of the fallback search of parse_model_cell, PyNone for no match
english_translation_fallback(cell_text) ==
    LET i == SearchI(cell_text, ENGLISH_TRANSLATION_COLON)
    IN  IF i = -1 THEN PyNone
        ELSE LET p == WsRunFwd(cell_text, i + Len(ENGLISH_TRANSLATION_COLON))
             IN  SubSeq(cell_text, p + 1, LazyUntilEnglish(cell_text, p))

(***************************************************************************)
(* 6) parse_model_cell                                                     *)
(***************************************************************************)
\* "AI English Translation"
H_AI ==
    <<"A", "I", " ", "E", "n", "g", "l", "i", "s", "h", " ", "T", "r", "a",
      "n", "s", "l", "a", "t", "i", "o", "n">>

\* "1. Literal Translation Mapping"
H_LIT ==
    <<"1", ".", " ", "L", "i", "t", "e", "r", "a", "l", " ", "T", "r", "a",
      "n", "s", "l", "a", "t", "i", "o", "n", " ", "M", "a", "p", "p", "i",
      "n", "g">>

\* "2. Cultural Context"
H_CULT ==
    <<"2", ".", " ", "C", "u", "l", "t", "u", "r", "a", "l", " ", "C", "o",
      "n", "t", "e", "x", "t">>

\* "3. Translation Clarification"
H_CLAR ==
    <<"3", ".", " ", "T", "r", "a", "n", "s", "l", "a", "t", "i", "o", "n",
      " ", "C", "l", "a", "r", "i", "f", "i", "c", "a", "t", "i", "o", "n">>

\* "Footnote"
H_FOOT ==
    <<"F", "o", "o", "t", "n", "o", "t", "e">>

EmptyParsed ==
    [AI_English_Full |-> <<>>, AI_English_Bullets |-> <<>>,
     Literal_Full |-> <<>>, Literal_Bullets |-> <<>>,
     Cultural |-> <<>>, Clarification |-> <<>>]

\* mutant of parse_model_cell: the bullet lines stay in the section they
\* were found in
parse_model_cell_no_reclassify(cell_text0) ==
    IF cell_text0 = PyNone THEN EmptyParsed
    ELSE LET cell_text == normalize_text(cell_text0)
             ai_bold == extract_section_by_bold_headings(cell_text, H_AI,
                            <<H_LIT, H_CULT, H_CLAR, H_FOOT>>)
             m == english_translation_fallback(cell_text)
             ai_block == IF Strip(ai_bold) = <<>> /\ m # PyNone THEN m ELSE ai_bold
             lit_block == extract_section_by_bold_headings(cell_text, H_LIT,
                              <<H_CULT, H_CLAR, H_FOOT>>)
             cult_bold == Strip(extract_section_by_bold_headings(cell_text, H_CULT,
                              <<H_CLAR, H_FOOT>>))
             clar_bold == Strip(extract_section_by_bold_headings(cell_text, H_CLAR,
                              <<H_FOOT>>))
         IN  [AI_English_Full |-> Strip(ai_block),
              AI_English_Bullets |-> parse_bullet_lines(ai_block),
              Literal_Full |-> Strip(lit_block),
              Literal_Bullets |-> parse_bullet_lines(lit_block),
              Cultural |-> IF cult_bold = <<>>
                           THEN extract_section_generic(cell_text, H_CULT, <<H_CLAR, H_FOOT>>)
                           ELSE cult_bold,
              Clarification |-> IF clar_bold = <<>>
                                THEN extract_section_generic(cell_text, H_CLAR, <<H_FOOT>>)
                                ELSE clar_bold]

\* mutant of parse_model_cell: for Cultural Context the generic extraction
\* is tried first
parse_model_cell_generic_first(cell_text0) ==
    IF cell_text0 = PyNone THEN EmptyParsed
    ELSE LET cell_text == normalize_text(cell_text0)
             ai_bold == extract_section_by_bold_headings(cell_text, H_AI,
                            <<H_LIT, H_CULT, H_CLAR, H_FOOT>>)
             m == english_translation_fallback(cell_text)
             ai_block == IF Strip(ai_bold) = <<>> /\ m # PyNone THEN m ELSE ai_bold
             ai_bullets == parse_bullet_lines(ai_block)
             lit_block == extract_section_by_bold_headings(cell_text, H_LIT,
                              <<H_CULT, H_CLAR, H_FOOT>>)
             lit_bullets == parse_bullet_lines(lit_block)
             cult_bold == Strip(extract_section_by_bold_headings(cell_text, H_CULT,
                              <<H_CLAR, H_FOOT>>))
             cult_generic == extract_section_generic(cell_text, H_CULT, <<H_CLAR, H_FOOT>>)
             cult_block == IF cult_generic # <<>> THEN cult_generic ELSE cult_bold
             clar_bold == Strip(extract_section_by_bold_headings(cell_text, H_CLAR,
                              <<H_FOOT>>))
             clar_block == IF clar_bold = <<>>
                           THEN extract_section_generic(cell_text, H_CLAR, <<H_FOOT>>)
                           ELSE clar_bold
             final == separate_ai_vs_literal(ai_bullets, lit_bullets)
         IN  [AI_English_Full |-> Strip(ai_block),
              AI_English_Bullets |-> final[1],
              Literal_Full |-> Strip(lit_block),
              Literal_Bullets |-> final[2],
              Cultural |-> cult_block,
              Clarification |-> clar_block]

parse_model_cell(cell_text0) ==
    IF cell_text0 = PyNone THEN EmptyParsed
    ELSE LET cell_text == normalize_text(cell_text0)
             ai_bold == extract_section_by_bold_headings(cell_text, H_AI,
                            <<H_LIT, H_CULT, H_CLAR, H_FOOT>>)
             m == english_translation_fallback(cell_text)
             ai_block == IF Strip(ai_bold) = <<>> /\ m # PyNone THEN m ELSE ai_bold
             ai_bullets == parse_bullet_lines(ai_block)
             lit_block == extract_section_by_bold_headings(cell_text, H_LIT,
                              <<H_CULT, H_CLAR, H_FOOT>>)
             lit_bullets == parse_bullet_lines(lit_block)
             cult_bold == Strip(extract_section_by_bold_headings(cell_text, H_CULT,
                              <<H_CLAR, H_FOOT>>))
             cult_block == IF cult_bold = <<>>
                           THEN extract_section_generic(cell_text, H_CULT, <<H_CLAR, H_FOOT>>)
                           ELSE cult_bold
             clar_bold == Strip(extract_section_by_bold_headings(cell_text, H_CLAR,
                              <<H_FOOT>>))
             clar_block == IF clar_bold = <<>>
                           THEN extract_section_generic(cell_text, H_CLAR, <<H_FOOT>>)
                           ELSE clar_bold
             final == separate_ai_vs_literal(ai_bullets, lit_bullets)
         IN  [AI_English_Full |-> Strip(ai_block),
              AI_English_Bullets |-> final[1],
              Literal_Full |-> Strip(lit_block),
              Literal_Bullets |-> final[2],
              Cultural |-> cult_block,
              Clarification |-> clar_block]

(***************************************************************************)
(* 8) bullet-on rows                                                       *)
(***************************************************************************)
\* the characters of the explored column names, in code point order
CodeOrder ==
    <<"0", "1", "2", "3", "4", "5", "6", "7", "8", "9", "A", "B", "C", "D",
      "E", "F", "G", "H", "I", "J", "K", "L", "M", "N", "O", "P", "Q", "R",
      "S", "T", "U", "V", "W", "X", "Y", "Z", "a", "b", "c", "d", "e", "f",
      "g", "h", "i", "j", "k", "l", "m", "n", "o", "p", "q", "r", "s", "t",
      "u", "v", "w", "x", "y", "z">>

CodePoint(c) == CHOOSE i \in 1..Len(CodeOrder) : CodeOrder[i] = c

RECURSIVE StrLess(_, _)
\* a < b for two str
StrLess(a, b) ==
    IF b = <<>> THEN FALSE
    ELSE IF a = <<>> THEN TRUE
    ELSE IF Head(a) = Head(b) THEN StrLess(Tail(a), Tail(b))
    ELSE CodePoint(Head(a)) < CodePoint(Head(b))

RECURSIVE InsertSorted(_, _)
InsertSorted(sorted_list, x) ==
    IF sorted_list = <<>> THEN <<x>>
    ELSE IF StrLess(x, Head(sorted_list)) THEN <<x>> \o sorted_list
    ELSE <<Head(sorted_list)>> \o InsertSorted(Tail(sorted_list), x)

\* mutant of sorted: the list is left in the order given
sorted_unsorted(list) == list

RECURSIVE sorted(_)
\* sorted(list) of a list of str
sorted(list) ==
    IF list = <<>> THEN <<>>
    ELSE InsertSorted(sorted(SubSeq(list, 1, Len(list) - 1)), list[Len(list)])

RECURSIVE SetToSeq(_)
SetToSeq(S) ==
    IF S = {} THEN <<>>
    ELSE LET x == CHOOSE x \in S : TRUE IN <<x>> \o SetToSeq(S \ {x})

\* sorted(dict.keys())
sorted_keys(dict) == sorted(SetToSeq(DOMAIN dict))

\* raised by max() of an empty sequence
ValueError == << "ValueError" >>

RECURSIVE MaxLen(_, _)
\* max(len(dict_of_lists[m]) for m in model_names), model_names not empty
MaxLen(dict_of_lists, model_names) ==
    IF Len(model_names) = 1 THEN Len(dict_of_lists[Head(model_names)])
    ELSE LET rest == MaxLen(dict_of_lists, Tail(model_names))
             here == Len(dict_of_lists[Head(model_names)])
         IN  IF here > rest THEN here ELSE rest

\* [label] + cells
RowOf(label, cells) == <<label>> \o cells

RECURSIVE MinLen(_, _)
MinLen(dict_of_lists, model_names) ==
    IF Len(model_names) = 1 THEN Len(dict_of_lists[Head(model_names)])
    ELSE LET rest == MinLen(dict_of_lists, Tail(model_names))
             here == Len(dict_of_lists[Head(model_names)])
         IN  IF here < rest THEN here ELSE rest

\* mutant of build_section_rows_bullet_on: the rows stop at the shortest
\* list
build_section_rows_bullet_on_min(section_label, dict_of_lists, color_pos_on) ==
    LET model_names == sorted_keys(dict_of_lists)
    IN  IF model_names = <<>> THEN ValueError
        ELSE LET min_len == MinLen(dict_of_lists, model_names)
             IN  [i \in 1..min_len |->
                     RowOf(IF i = 1 THEN section_label ELSE <<>>,
                           [k \in 1..Len(model_names) |->
                               colorize_full_bullet_line(dict_of_lists[model_names[k]][i],
                                                         color_pos_on)])]

build_section_rows_bullet_on(section_label, dict_of_lists, color_pos_on) ==
    LET model_names == sorted_keys(dict_of_lists)
    IN  IF model_names = <<>> THEN ValueError
        ELSE LET max_len == MaxLen(dict_of_lists, model_names)
                 cell(i, m) ==
                     IF i <= Len(dict_of_lists[m])
                     THEN colorize_full_bullet_line(dict_of_lists[m][i], color_pos_on)
                     ELSE <<>>
             IN  [i \in 1..max_len |->
                     RowOf(IF i = 1 THEN section_label ELSE <<>>,
                           [k \in 1..Len(model_names) |-> cell(i, model_names[k])])]

(***************************************************************************)
(* 9), 10) bullet-off rows                                                 *)
(***************************************************************************)
build_single_joined_akan_row(section_label, dict_of_lists, color_pos_on) ==
    LET model_names == sorted_keys(dict_of_lists)
        tokens(m) == [i \in 1..Len(dict_of_lists[m]) |->
                         parse_bullet_line_for_akan_substring(dict_of_lists[m][i], color_pos_on)]
    IN  IF \A k \in 1..Len(model_names) : dict_of_lists[model_names[k]] = <<>>
        THEN <<>>
        ELSE <<RowOf(section_label,
                     [k \in 1..Len(model_names) |-> JoinSp(tokens(model_names[k]))])>>

\* dict model -> joined AI text
build_section_rows_bullet_off_ai(dict_of_lists, color_pos_on) ==
    [m \in DOMAIN dict_of_lists |->
        JoinSp([i \in 1..Len(dict_of_lists[m]) |->
                   parse_bullet_line_for_english_substring(dict_of_lists[m][i], color_pos_on)])]

\* mutant of build_section_rows_bullet_off_literal: the source-language
\* payloads are joined again
build_section_rows_bullet_off_literal_akan(dict_of_lists, color_pos_on) ==
    [m \in DOMAIN dict_of_lists |->
        JoinSp([i \in 1..Len(dict_of_lists[m]) |->
                   parse_bullet_line_for_akan_substring(dict_of_lists[m][i], color_pos_on)])]

\* dict model -> joined literal text
build_section_rows_bullet_off_literal(dict_of_lists, color_pos_on) ==
    [m \in DOMAIN dict_of_lists |->
        JoinSp([i \in 1..Len(dict_of_lists[m]) |->
                   parse_bullet_line_for_literal_substring(dict_of_lists[m][i], color_pos_on)])]

(***************************************************************************)
(* 11) build_literal_akan_subtable                                         *)
(***************************************************************************)
\* "Literal Translation Mapping"
L_LITERAL_MAPPING ==
    <<"L", "i", "t", "e", "r", "a", "l", " ", "T", "r", "a", "n", "s", "l",
      "a", "t", "i", "o", "n", " ", "M", "a", "p", "p", "i", "n", "g">>

\* any(d[m] for m in model_names), d a dict of lists or of str
AnyNonEmpty(d, model_names) ==
    \E k \in 1..Len(model_names) : d[model_names[k]] # <<>>

\* [label] + [""] * len(model_names)
HeaderRow(label, model_names) ==
    <<label>> \o [k \in 1..Len(model_names) |-> <<>>]

build_literal_akan_subtable(akan_text, model_names, model_bullet_lines, color_pos_on) ==
    IF ~AnyNonEmpty(model_bullet_lines, model_names) THEN <<>>
    ELSE <<HeaderRow(L_LITERAL_MAPPING, model_names)>>
         \o build_section_rows_bullet_on(<<>>, model_bullet_lines, color_pos_on)

(***************************************************************************)
(* 12) cultural / clarification rows and the table                         *)
(***************************************************************************)
\* mutant of build_cultural_or_clar_rows: the row is emitted although every
\* text is blank
build_cultural_or_clar_rows_always(section_label, dict_of_strings) ==
    LET model_names == sorted_keys(dict_of_strings)
    IN  <<RowOf(section_label,
                [k \in 1..Len(model_names) |-> dict_of_strings[model_names[k]]])>>

\* mutant of build_cultural_or_clar_rows: one row per line of the texts
build_cultural_or_clar_rows_split(section_label, dict_of_strings) ==
    LET model_names == sorted_keys(dict_of_strings)
        lines == [m \in DOMAIN dict_of_strings |-> SplitLines(dict_of_strings[m])]
    IN  IF \A k \in 1..Len(model_names) : Strip(dict_of_strings[model_names[k]]) = <<>>
        THEN <<>>
        ELSE [i \in 1..MaxLen(lines, model_names) |->
                 RowOf(IF i = 1 THEN section_label ELSE <<>>,
                       [k \in 1..Len(model_names) |->
                           IF i <= Len(lines[model_names[k]])
                           THEN lines[model_names[k]][i] ELSE <<>>])]

build_cultural_or_clar_rows(section_label, dict_of_strings) ==
    LET model_names == sorted_keys(dict_of_strings)
    IN  IF \A k \in 1..Len(model_names) : Strip(dict_of_strings[model_names[k]]) = <<>>
        THEN <<>>
        ELSE <<RowOf(section_label,
                     [k \in 1..Len(model_names) |-> dict_of_strings[model_names[k]]])>>

\* "Section"
L_SECTION ==
    <<"S", "e", "c", "t", "i", "o", "n">>

\* the table of build_big_table_html: its header cells and its body rows
\* (the HTML tags around them are not modelled)
build_big_table_html(model_names, rows_data) ==
    [tag |-> "table", text |-> <<>>,
     header |-> <<L_SECTION>> \o model_names, body |-> rows_data]

make_transition_row(label, num_models) ==
    <<<<label>> \o [k \in 1..num_models |-> <<>>]>>

(***************************************************************************)
(* 13) build_ai_model_display_for_line                                     *)
(***************************************************************************)
\* "AKAN"
COL_AKAN ==
    <<"A", "K", "A", "N">>

\* "ReferenceEN"
COL_REF ==
    <<"R", "e", "f", "e", "r", "e", "n", "c", "e", "E", "N">>

\* "Akan"
L_AKAN ==
    <<"A", "k", "a", "n">>

\* "Literal English Translation"
L_LITERAL_ENGLISH ==
    <<"L", "i", "t", "e", "r", "a", "l", " ", "E", "n", "g", "l", "i", "s",
      "h", " ", "T", "r", "a", "n", "s", "l", "a", "t", "i", "o", "n">>

\* "AI English Translation"
L_AI_ENGLISH ==
    <<"A", "I", " ", "E", "n", "g", "l", "i", "s", "h", " ", "T", "r", "a",
      "n", "s", "l", "a", "t", "i", "o", "n">>

\* "Cultural Context"
L_CULTURAL ==
    <<"C", "u", "l", "t", "u", "r", "a", "l", " ", "C", "o", "n", "t", "e",
      "x", "t">>

\* "Translation Clarification"
L_CLARIFICATION ==
    <<"T", "r", "a", "n", "s", "l", "a", "t", "i", "o", "n", " ", "C", "l",
      "a", "r", "i", "f", "i", "c", "a", "t", "i", "o", "n">>

\* "[No data to display (em dash) toggles off or no recognized sections
\* found]"
NO_DATA_TEXT ==
    <<"[", "N", "o", " ", "d", "a", "t", "a", " ", "t", "o", " ", "d", "i",
      "s", "p", "l", "a", "y", " ", EMDASH, " ", "t", "o", "g", "g", "l",
      "e", "s", " ", "o", "f", "f", " ", "o", "r", " ", "n", "o", " ", "r",
      "e", "c", "o", "g", "n", "i", "z", "e", "d", " ", "s", "e", "c", "t",
      "i", "o", "n", "s", " ", "f", "o", "u", "n", "d", "]">>

\* the paragraph shown instead of a table
NO_DATA_PLACEHOLDER ==
    [tag |-> "p", text |-> NO_DATA_TEXT, header |-> <<>>, body |-> <<>>]

\* str(row.get(col, ""))
row_get_str(row, col) == IF col \in DOMAIN row THEN row[col] ELSE <<>>

\* model_data: parse each model's cell
parse_models(row, model_cols) ==
    [mc \in Range(model_cols) |-> parse_model_cell(row_get_str(row, mc))]

\* the LITERAL block
literal_rows(akan_val, model_names, model_data, show_literal_bullets, color_pos_on) ==
    LET lit_dict_bullets == [m \in Range(model_names) |-> model_data[m].Literal_Bullets]
        lit_dict_full == [m \in Range(model_names) |-> model_data[m].Literal_Full]
        akan_row_data(m) ==
            JoinSp([i \in 1..Len(lit_dict_bullets[m]) |->
                       parse_bullet_line_for_akan_substring(lit_dict_bullets[m][i], color_pos_on)])
        lit_data == build_section_rows_bullet_off_literal(lit_dict_bullets, color_pos_on)
        PerModel(f(_)) == [k \in 1..Len(model_names) |-> f(model_names[k])]
        LitData(m) == lit_data[m]
        LitFull(m) == lit_dict_full[m]
    IN  IF show_literal_bullets /\ AnyNonEmpty(lit_dict_bullets, model_names)
        THEN build_literal_akan_subtable(akan_val, model_names, lit_dict_bullets, color_pos_on)
        ELSE IF AnyNonEmpty(lit_dict_bullets, model_names)
             THEN <<RowOf(L_AKAN, PerModel(akan_row_data)),
                    RowOf(L_LITERAL_ENGLISH, PerModel(LitData))>>
             ELSE IF \E k \in 1..Len(model_names) :
                        Strip(lit_dict_full[model_names[k]]) # <<>>
                  THEN <<RowOf(L_LITERAL_ENGLISH, PerModel(LitFull))>>
                  ELSE <<>>

\* the AI block
ai_rows_of(model_names, model_data, show_ai_bullets, color_pos_on) ==
    LET ai_dict_bullets == [m \in Range(model_names) |-> model_data[m].AI_English_Bullets]
        ai_dict_full == [m \in Range(model_names) |-> model_data[m].AI_English_Full]
        joined_map == build_section_rows_bullet_off_ai(ai_dict_bullets, color_pos_on)
        PerModel(f(_)) == [k \in 1..Len(model_names) |-> f(model_names[k])]
        Joined(m) == joined_map[m]
        AiFull(m) == ai_dict_full[m]
    IN  IF show_ai_bullets /\ AnyNonEmpty(ai_dict_bullets, model_names)
        THEN <<HeaderRow(L_AI_ENGLISH, model_names)>>
             \o build_section_rows_bullet_on(<<>>, ai_dict_bullets, color_pos_on)
        ELSE IF AnyNonEmpty(ai_dict_bullets, model_names)
             THEN <<RowOf(L_AI_ENGLISH, PerModel(Joined))>>
             ELSE IF \E k \in 1..Len(model_names) :
                        Strip(ai_dict_full[model_names[k]]) # <<>>
                  THEN <<RowOf(L_AI_ENGLISH, PerModel(AiFull))>>
                  ELSE <<>>

\* everything after the cells are parsed; the returned f-string is kept as
\* its three interpolated values, with the row lists it was built from
assemble_display(row, model_cols, model_data, show_ai_bullets, show_literal_bullets, show_cultural, show_clarification, color_pos_on) ==
    LET akan_val == row_get_str(row, COL_AKAN)
        ref_val == row_get_str(row, COL_REF)
        model_names == sorted(model_cols)
        lit_rows == literal_rows(akan_val, model_names, model_data,
                                 show_literal_bullets, color_pos_on)
        ai_rows == ai_rows_of(model_names, model_data, show_ai_bullets, color_pos_on)
        cult_dict == [m \in Range(model_names) |-> model_data[m].Cultural]
        clar_dict == [m \in Range(model_names) |-> model_data[m].Clarification]
        cult_rows == IF show_cultural
                     THEN build_cultural_or_clar_rows(L_CULTURAL, cult_dict) ELSE <<>>
        clar_rows == IF show_clarification
                     THEN build_cultural_or_clar_rows(L_CLARIFICATION, clar_dict) ELSE <<>>
        all_rows == lit_rows \o ai_rows \o cult_rows \o clar_rows
    IN  [akan_val |-> akan_val,
         ref_val |-> ref_val,
         model_names |-> model_names,
         model_data |-> model_data,
         lit_rows |-> lit_rows,
         ai_rows |-> ai_rows,
         cult_rows |-> cult_rows,
         clar_rows |-> clar_rows,
         all_rows |-> all_rows,
         table_html |-> IF all_rows = <<>> THEN NO_DATA_PLACEHOLDER
                        ELSE build_big_table_html(model_names, all_rows)]

build_ai_model_display_for_line(row, model_cols, show_ai_bullets, show_literal_bullets, show_cultural, show_clarification, color_pos_on) ==
    assemble_display(row, model_cols, parse_models(row, model_cols),
                     show_ai_bullets, show_literal_bullets,
                     show_cultural, show_clarification, color_pos_on)

(***************************************************************************)
(* The display of one line: build_ai_model_display_for_line called on a    *)
(* data row with up to MaxModels model columns.                            *)
(***************************************************************************)
MaxModels == 2

\* model column names of both letter cases, not in alphabetical order
ModelColumns ==
    << <<"g", "p", "t">>,
       <<"L", "l", "a", "m", "a">>,
       <<"C", "l", "a", "u", "d", "e">> >>

\* the four bold sections and a footnote; the literal section has two lines
\* of two delimiters and one of one delimiter
CellFull ==
    <<"*", "*", "A", "I", " ", "E", "n", "g", "l", "i", "s", "h", " ", "T",
      "r", "a", "n", "s", "l", "a", "t", "i", "o", "n", "*", "*", "\n",
      "-", " ", "I", " ", "w", "e", "n", "t", " ", "h", "o", "m", "e",
      "\n", "-", " ", "m", "e", " ", "=", ">", " ", "I", "\n", "*", "*",
      "1", ".", " ", "L", "i", "t", "e", "r", "a", "l", " ", "T", "r", "a",
      "n", "s", "l", "a", "t", "i", "o", "n", " ", "M", "a", "p", "p", "i",
      "n", "g", "*", "*", "\n", "-", " ", "\"", "M", "e", "\"", " ", "=",
      ">", " ", "\"", "I", "\"", " ", "=", ">", " ", "P", "r", "o", "n",
      "o", "u", "n", "\n", " ", " ", "-", " ", "\"", "k", "o", "o", "\"",
      " ", "=", ">", " ", "\"", "w", "e", "n", "t", "\"", " ", "=", ">",
      " ", "V", "e", "r", "b", "\n", "-", " ", "f", "i", "e", " ", "=",
      ">", " ", "h", "o", "m", "e", "\n", "*", "*", "2", ".", " ", "C",
      "u", "l", "t", "u", "r", "a", "l", " ", "C", "o", "n", "t", "e", "x",
      "t", "*", "*", "\n", "H", "o", "m", "e", " ", "i", "s", " ", "c",
      "e", "n", "t", "r", "a", "l", ".", "\n", "*", "*", "3", ".", " ",
      "T", "r", "a", "n", "s", "l", "a", "t", "i", "o", "n", " ", "C", "l",
      "a", "r", "i", "f", "i", "c", "a", "t", "i", "o", "n", "*", "*",
      "\n", "P", "a", "s", "t", " ", "t", "e", "n", "s", "e", ".", "\n",
      "*", "*", "F", "o", "o", "t", "n", "o", "t", "e", "*", "*", " ", "x">>

\* a literal section only, one line of four delimiters, no end marker
CellLiteralOnly ==
    <<"*", "*", "1", ".", " ", "L", "i", "t", "e", "r", "a", "l", " ", "T",
      "r", "a", "n", "s", "l", "a", "t", "i", "o", "n", " ", "M", "a", "p",
      "p", "i", "n", "g", "*", "*", "\n", "-", " ", "w", "o", " ", "=",
      ">", " ", "y", "o", "u", " ", "=", ">", " ", "p", "r", "o", "n", "o",
      "u", "n", " ", "=", ">", " ", "e", "x", "t", "r", "a", " ", "=", ">",
      " ", "N", "o", "u", "n", "\n">>

\* a line of two delimiters under the AI heading and a line of one
\* delimiter under the literal heading; a blank cultural section
CellSwapped ==
    <<"*", "*", "A", "I", " ", "E", "n", "g", "l", "i", "s", "h", " ", "T",
      "r", "a", "n", "s", "l", "a", "t", "i", "o", "n", "*", "*", "\n",
      "-", " ", "a", " ", "=", ">", " ", "b", " ", "=", ">", " ", "V", "e",
      "r", "b", "\n", "-", " ", "p", "l", "a", "i", "n", " ", "w", "o",
      "r", "d", "s", "\n", "*", "*", "1", ".", " ", "L", "i", "t", "e",
      "r", "a", "l", " ", "T", "r", "a", "n", "s", "l", "a", "t", "i", "o",
      "n", " ", "M", "a", "p", "p", "i", "n", "g", "*", "*", "\n", "\t",
      "-", " ", "x", " ", "=", ">", " ", "n", "o", "u", "n", "\n", "*",
      "*", "2", ".", " ", "C", "u", "l", "t", "u", "r", "a", "l", " ", "C",
      "o", "n", "t", "e", "x", "t", "*", "*", "\n", " ", "\n", "*", "*",
      "3", ".", " ", "T", "r", "a", "n", "s", "l", "a", "t", "i", "o", "n",
      " ", "C", "l", "a", "r", "i", "f", "i", "c", "a", "t", "i", "o", "n",
      "*", "*", "\n", "c">>

\* headings that are not bold
CellGeneric ==
    <<"E", "n", "g", "l", "i", "s", "h", " ", "T", "r", "a", "n", "s", "l",
      "a", "t", "i", "o", "n", ":", " ", "H", "e", " ", "s", "a", "i", "d",
      " ", "\"", "g", "o", "\"", ".", "\n", "1", ".", " ", "L", "i", "t",
      "e", "r", "a", "l", " ", "T", "r", "a", "n", "s", "l", "a", "t", "i",
      "o", "n", " ", "M", "a", "p", "p", "i", "n", "g", ":", "\n", "-",
      " ", "s", "e", " ", "=", ">", " ", "s", "a", "i", "d", " ", "=", ">",
      " ", "v", "e", "r", "b", "\n", "2", ".", " ", "C", "u", "l", "t",
      "u", "r", "a", "l", " ", "C", "o", "n", "t", "e", "x", "t", ":", " ",
      "P", "r", "o", "v", "e", "r", "b", "s", " ", "m", "a", "t", "t", "e",
      "r", ".", "\n", "3", ".", " ", "T", "r", "a", "n", "s", "l", "a",
      "t", "i", "o", "n", " ", "C", "l", "a", "r", "i", "f", "i", "c", "a",
      "t", "i", "o", "n", " ", "-", " ", "n", "o", "n", "e">>

\* headings in another case, typographic quotes, a literal section in prose
CellOtherCase ==
    <<"*", "*", "a", "i", " ", "e", "n", "g", "l", "i", "s", "h", " ", "t",
      "r", "a", "n", "s", "l", "a", "t", "i", "o", "n", "*", "*", "\n",
      BULLET, " ", LDQUO, "G", "o", RDQUO, " ", "=", ">", " ", "v", "e",
      "r", "b", "\n", "*", "*", "1", ".", " ", "L", "I", "T", "E", "R",
      "A", "L", " ", "T", "R", "A", "N", "S", "L", "A", "T", "I", "O", "N",
      " ", "M", "A", "P", "P", "I", "N", "G", "*", "*", "\n", "p", "r",
      "o", "s", "e", " ", "o", "n", "l", "y", "\n", "*", "*", "2", ".",
      " ", "c", "u", "l", "t", "u", "r", "a", "l", " ", "c", "o", "n", "t",
      "e", "x", "t", "*", "*", "\n", "c", "t", "x">>

\* AI bullet lines, and bullet lines under the cultural heading
CellAiBullets ==
    <<"*", "*", "A", "I", " ", "E", "n", "g", "l", "i", "s", "h", " ", "T",
      "r", "a", "n", "s", "l", "a", "t", "i", "o", "n", "*", "*", "\n",
      "-", " ", "o", "n", "e", "\n", "-", " ", "t", "w", "o", "\n", "-",
      " ", "t", "h", "r", "e", "e", " ", "=", ">", " ", "A", "d", "j", "e",
      "c", "t", "i", "v", "e", "\n", "*", "*", "2", ".", " ", "C", "u",
      "l", "t", "u", "r", "a", "l", " ", "C", "o", "n", "t", "e", "x", "t",
      "*", "*", "\n", "-", " ", "k", " ", "=", ">", " ", "l", " ", "=",
      ">", " ", "N", "o", "u", "n", "\n", "-", " ", "p", "l", "a", "i",
      "n", "\n">>

\* two sections in prose, no bullet line
CellProse ==
    <<"*", "*", "A", "I", " ", "E", "n", "g", "l", "i", "s", "h", " ", "T",
      "r", "a", "n", "s", "l", "a", "t", "i", "o", "n", "*", "*", "\n",
      "J", "u", "s", "t", " ", "p", "r", "o", "s", "e", ".", "\n", "*",
      "*", "1", ".", " ", "L", "i", "t", "e", "r", "a", "l", " ", "T", "r",
      "a", "n", "s", "l", "a", "t", "i", "o", "n", " ", "M", "a", "p", "p",
      "i", "n", "g", "*", "*", "\n", "w", "o", "r", "d", " ", "f", "o",
      "r", " ", "w", "o", "r", "d", "\n">>

\* the four bold sections; a line of two delimiters under the AI heading and
\* three literal lines, two of two delimiters and one of one
CellFullHighAi ==
    <<"*", "*", "A", "I", " ", "E", "n", "g", "l", "i", "s", "h", " ", "T",
      "r", "a", "n", "s", "l", "a", "t", "i", "o", "n", "*", "*", "\n",
      "-", " ", "H", "e", " ", "=", ">", " ", "s", "h", "e", " ", "=", ">",
      " ", "P", "r", "o", "n", "o", "u", "n", "\n", "-", " ", "s", "o",
      " ", "i", "t", " ", "g", "o", "e", "s", "\n", "*", "*", "1", ".",
      " ", "L", "i", "t", "e", "r", "a", "l", " ", "T", "r", "a", "n", "s",
      "l", "a", "t", "i", "o", "n", " ", "M", "a", "p", "p", "i", "n", "g",
      "*", "*", "\n", "-", " ", "n", "a", " ", "=", ">", " ", "a", "n",
      "d", " ", "=", ">", " ", "C", "o", "n", "j", "u", "n", "c", "t", "i",
      "o", "n", "\n", "-", " ", "y", "e", " ", "=", ">", " ", "g", "o",
      "o", "d", "\n", "-", " ", "p", "a", "a", " ", "=", ">", " ", "v",
      "e", "r", "y", " ", "=", ">", " ", "A", "d", "v", "e", "r", "b",
      "\n", "*", "*", "2", ".", " ", "C", "u", "l", "t", "u", "r", "a",
      "l", " ", "C", "o", "n", "t", "e", "x", "t", "*", "*", "\n", "x",
      "\n", "*", "*", "3", ".", " ", "T", "r", "a", "n", "s", "l", "a",
      "t", "i", "o", "n", " ", "C", "l", "a", "r", "i", "f", "i", "c", "a",
      "t", "i", "o", "n", "*", "*", "\n", "y">>

\* str(float('nan')) of an empty spreadsheet cell
CellNan ==
    <<"n", "a", "n">>

\* a literal section whose only line has one delimiter
CellLowLiteral ==
    <<"*", "*", "A", "I", " ", "E", "n", "g", "l", "i", "s", "h", " ", "T",
      "r", "a", "n", "s", "l", "a", "t", "i", "o", "n", "*", "*", "\n",
      "-", " ", "s", "o", " ", "i", "t", " ", "g", "o", "e", "s", "\n",
      "*", "*", "1", ".", " ", "L", "i", "t", "e", "r", "a", "l", " ", "T",
      "r", "a", "n", "s", "l", "a", "t", "i", "o", "n", " ", "M", "a", "p",
      "p", "i", "n", "g", "*", "*", "\n", "-", " ", "y", "e", " ", "=",
      ">", " ", "g", "o", "o", "d", "\n">>

CellTexts ==
    { <<>>, CellNan, CellFull, CellLiteralOnly, CellSwapped, CellGeneric,
      CellOtherCase, CellAiBullets, CellProse, CellFullHighAi, CellLowLiteral }

\* "Me koo fie"
AkanText ==
    <<"M", "e", " ", "k", "o", "o", " ", "f", "i", "e">>

\* "I went home"
ReferenceText ==
    <<"I", " ", "w", "e", "n", "t", " ", "h", "o", "m", "e">>

\* the data row whose model columns model_cols hold cells
RowWith(model_cols, cells) ==
    [c \in {COL_AKAN, COL_REF} \cup Range(model_cols) |->
        IF c = COL_AKAN THEN AkanText
        ELSE IF c = COL_REF THEN ReferenceText
        ELSE cells[CHOOSE k \in 1..Len(model_cols) : model_cols[k] = c]]

InitRows ==
    /\ pc = "call"
    /\ call = [fn |-> "none"]
    /\ ret = <<>>

\* the cells are parsed once per row (lines 453-457) and the rows assembled
\* under each setting of the five toggles (lines 459-554)
Call_build_ai_model_display_for_line ==
    /\ pc = "call"
    /\ \E k \in 0..MaxModels : \E cells \in [1..k -> CellTexts] :
          LET model_cols == Take(ModelColumns, k)
              row == RowWith(model_cols, cells)
          IN  \E model_data \in {parse_models(row, model_cols)} :
              \E show_ai_bullets \in BOOLEAN : \E show_literal_bullets \in BOOLEAN :
              \E show_cultural \in BOOLEAN : \E show_clarification \in BOOLEAN :
              \E color_pos_on \in BOOLEAN :
                 /\ call' = [fn |-> "build_ai_model_display_for_line",
                             row |-> row, model_cols |-> model_cols,
                             show_ai_bullets |-> show_ai_bullets,
                             show_literal_bullets |-> show_literal_bullets,
                             show_cultural |-> show_cultural,
                             show_clarification |-> show_clarification,
                             color_pos_on |-> color_pos_on]
                 /\ ret' = assemble_display(row, model_cols, model_data,
                               show_ai_bullets, show_literal_bullets,
                               show_cultural, show_clarification, color_pos_on)
    /\ pc' = "done"

NextRows == Call_build_ai_model_display_for_line

SpecRows == InitRows /\ [][NextRows]_vars

DoneDisplay == pc = "done" /\ call.fn = "build_ai_model_display_for_line"

\* the two sections that have a detail mode: the toggle, the bucket of
\* bullet lines, the section label and the rows emitted for the section
DetailSections == {"literal", "ai"}

SectionToggle(sec) ==
    IF sec = "literal" THEN call.show_literal_bullets ELSE call.show_ai_bullets

SectionLines(sec, m) ==
    IF sec = "literal" THEN ret.model_data[m].Literal_Bullets
    ELSE ret.model_data[m].AI_English_Bullets

SectionLabel(sec) == IF sec = "literal" THEN L_LITERAL_MAPPING ELSE L_AI_ENGLISH

SectionRows(sec) == IF sec = "literal" THEN ret.lit_rows ELSE ret.ai_rows

\* detail mode: the toggle is on and some model has bullet lines
DetailMode(sec) ==
    /\ SectionToggle(sec)
    /\ \E m \in Range(call.model_cols) : SectionLines(sec, m) # <<>>

\* the largest number of bullet lines a model has in the section
MaxLineCount(sec) ==
    CHOOSE n \in {Len(SectionLines(sec, m)) : m \in Range(call.model_cols)} :
        \A m \in Range(call.model_cols) : Len(SectionLines(sec, m)) <= n

\* cell shows line: the line without its leading spaces and tabs, in the
\* single-quoted colour markup when colouring is on and the lowercased last
\* field of the line is a recognised tag, bare otherwise
ShowsLine(cell, line, color_pos_on) ==
    \E k \in 0..Len(line) :
        LET raw == Drop(line, k)
            f == split_fields(raw)
            coloured == /\ color_pos_on
                        /\ f # <<>>
                        /\ LowerStr(f[Len(f)]) \in DOMAIN POS_COLOR_MAP
        IN  /\ \A i \in 1..k : line[i] \in {" ", "\t"}
            /\ raw = <<>> \/ raw[1] \notin {" ", "\t"}
            /\ coloured => cell = SpanSq(POS_COLOR_MAP[LowerStr(f[Len(f)])], raw)
            /\ ~coloured => cell = raw

\* in the row for bullet-line index i a model with at least i lines shows
\* its i-th line and a model with fewer lines shows an empty cell
BulletRowOk(sec, r, i) ==
    /\ Len(r) = 1 + Len(ret.model_names)
    /\ \A k \in 1..Len(ret.model_names) :
          LET lines == SectionLines(sec, ret.model_names[k])
          IN  IF i <= Len(lines)
              THEN ShowsLine(r[k + 1], lines[i], call.color_pos_on)
              ELSE r[k + 1] = <<>>

\* C10 as stated: in detail mode the rows emitted for the section are
\* exactly one row per bullet-line index, so their number equals the
\* maximum bullet-line count across the models, and the row for an index
\* shows each model's line of that index or an empty cell.
C10_OneRowPerBulletIndex ==
    DoneDisplay =>
        \A sec \in DetailSections :
            DetailMode(sec) =>
                LET rows == SectionRows(sec)
                    n == MaxLineCount(sec)
                IN  /\ Len(rows) = n
                    /\ \A i \in 1..n : BulletRowOk(sec, rows[i], i)

\* C10 amended: in detail mode the rows emitted for the section are one
\* heading row (the section label, then an empty cell per model) followed
\* by exactly one row per bullet-line index, so their number is one more
\* than the maximum bullet-line count across the models; the row for an
\* index has an empty label and shows each model's line of that index, or
\* an empty cell for a model with fewer lines.
C10_HeadingThenOneRowPerBulletIndex ==
    DoneDisplay =>
        /\ \A sec \in DetailSections :
              DetailMode(sec) =>
                  LET rows == SectionRows(sec)
                      n == MaxLineCount(sec)
                  IN  /\ Len(rows) = 1 + n
                      /\ rows[1] = <<SectionLabel(sec)>>
                                     \o [k \in 1..Len(ret.model_names) |-> <<>>]
                      /\ \A i \in 1..n :
                            /\ rows[i + 1][1] = <<>>
                            /\ BulletRowOk(sec, rows[i + 1], i)
        /\ (/\ call.model_cols = Take(ModelColumns, 2)
            /\ call.row[ModelColumns[1]] = CellFull
            /\ call.row[ModelColumns[2]] = CellSwapped
            /\ call.show_literal_bullets
            /\ call.color_pos_on) =>
              ret.lit_rows =
                << <<L_LITERAL_MAPPING, <<>>, <<>>>>,
                   << <<>>,
                      <<"<", "s", "p", "a", "n", " ", "s", "t", "y", "l",
                        "e", "=", "'", "c", "o", "l", "o", "r", ":", "r",
                        "e", "d", ";", "'", ">", "-", " ", "a", " ", "=",
                        ">", " ", "b", " ", "=", ">", " ", "V", "e", "r",
                        "b", "<", "/", "s", "p", "a", "n", ">">>,
                      <<"<", "s", "p", "a", "n", " ", "s", "t", "y", "l",
                        "e", "=", "'", "c", "o", "l", "o", "r", ":", "b",
                        "l", "u", "e", ";", "'", ">", "-", " ", "\"", "M",
                        "e", "\"", " ", "=", ">", " ", "\"", "I", "\"",
                        " ", "=", ">", " ", "P", "r", "o", "n", "o", "u",
                        "n", "<", "/", "s", "p", "a", "n", ">">> >>,
                   << <<>>,
                      <<>>,
                      <<"<", "s", "p", "a", "n", " ", "s", "t", "y", "l",
                        "e", "=", "'", "c", "o", "l", "o", "r", ":", "r",
                        "e", "d", ";", "'", ">", "-", " ", "\"", "k", "o",
                        "o", "\"", " ", "=", ">", " ", "\"", "w", "e", "n",
                        "t", "\"", " ", "=", ">", " ", "V", "e", "r", "b",
                        "<", "/", "s", "p", "a", "n", ">">> >> >>

\* C10 witness: the literal section in detail mode for two models, one with
\* two literal lines and one with one: a heading row and two bullet rows,
\* the second of them with an empty cell for the shorter model and the
\* indented line of the longer model shown without its indentation.
C10_Witness ==
    /\ DoneDisplay
    /\ DetailMode("literal")
    /\ Len(ret.model_names) = 2
    /\ Len(SectionLines("literal", ret.model_names[1])) = 1
    /\ Len(SectionLines("literal", ret.model_names[2])) = 2
    /\ SectionLines("literal", ret.model_names[2])[2][1] = " "
    /\ Len(ret.lit_rows) = 3
    /\ ret.lit_rows[3][2] = <<>>
    /\ ret.lit_rows[3][3] # <<>>
    /\ ret.lit_rows[3][3][1] # " "

(***************************************************************************)
(* End-to-end scenario: all four sections, three literal bullet lines      *)
(***************************************************************************)
\* the text between the bold heading of a section and the next bold heading
BoldSection(text, sec) ==
    LET t == normalize_text(text)
    IN  IF sec = "ai"
        THEN extract_section_by_bold_headings(t, H_AI, <<H_LIT, H_CULT, H_CLAR, H_FOOT>>)
        ELSE IF sec = "literal"
        THEN extract_section_by_bold_headings(t, H_LIT, <<H_CULT, H_CLAR, H_FOOT>>)
        ELSE IF sec = "cultural"
        THEN extract_section_by_bold_headings(t, H_CULT, <<H_CLAR, H_FOOT>>)
        ELSE extract_section_by_bold_headings(t, H_CLAR, <<H_FOOT>>)

\* the bullet lines found under the bold heading of a section
SectionBullets(text, sec) == parse_bullet_lines(BoldSection(text, sec))

\* the lines of a list with fewer than two delimiters / with two or more
LowLines(lines) == SelectSeq(lines, LAMBDA ln : arrow_count(ln) < 2)

HighLines(lines) == SelectSeq(lines, LAMBDA ln : arrow_count(ln) >= 2)

\* cell text containing all four sections whose literal section has three
\* bullet lines, two with two delimiters and one with one delimiter
ScenarioCell(text) ==
    /\ \A sec \in {"ai", "literal", "cultural", "clarification"} :
          Strip(BoldSection(text, sec)) # <<>>
    /\ LET lit == SectionBullets(text, "literal")
       IN  /\ Len(lit) = 3
           /\ Cardinality({i \in 1..3 : arrow_count(lit[i]) = 2}) = 2
           /\ Cardinality({i \in 1..3 : arrow_count(lit[i]) = 1}) = 1

\* the explored cell texts of that shape
ScenarioCells == {text \in CellTexts : ScenarioCell(text)}

\* the scenario: every model's cell is a ScenarioCell, literal-bullets
\* toggle on, AI-bullets toggle off
DoneScenario ==
    /\ DoneDisplay
    /\ call.show_literal_bullets
    /\ ~call.show_ai_bullets
    /\ call.model_cols # <<>>
    /\ \A m \in Range(call.model_cols) : call.row[m] \in ScenarioCells

\* the summary cell of model m: the free-translation payloads of the
\* AI-section lines with fewer than two delimiters, then of the literal
\* line with one delimiter, joined by single spaces
ScenarioSummaryCell(m) ==
    LET moved == LowLines(SectionBullets(call.row[m], "ai"))
                     \o LowLines(SectionBullets(call.row[m], "literal"))
    IN  JoinSp([i \in 1..Len(moved) |->
                   parse_bullet_line_for_english_substring(moved[i], call.color_pos_on)])

\* one row for the free-translation section, labelled, one summary cell
\* per model
ScenarioSummaryRow ==
    /\ Len(ret.ai_rows) = 1
    /\ ret.ai_rows[1][1] = L_AI_ENGLISH
    /\ \A k \in 1..Len(ret.model_names) :
          ret.ai_rows[1][k + 1] = ScenarioSummaryCell(ret.model_names[k])

\* C11 as stated: in the scenario the literal section has exactly 3 detail
\* rows and the free-translation section exactly 1 summary row, whose cell
\* joins the payloads of the reclassified one-delimiter literal line and of
\* the AI-section lines with fewer than two delimiters.
C11_ThreeDetailRowsOneSummaryRow ==
    DoneScenario => (Len(ret.lit_rows) = 3 /\ ScenarioSummaryRow)

\* the number of lines in the literal bucket of model m: the two literal
\* lines of two delimiters and the AI-section lines of two or more
ScenarioLiteralCount(m) == 2 + Len(HighLines(SectionBullets(call.row[m], "ai")))

\* C11 amended: in the scenario the literal section has one heading row and
\* one detail row per index of the longest literal bucket, a bucket holding
\* the model's two literal lines of two delimiters and every AI-section
\* line of two or more delimiters (3 rows only when no AI-section line has
\* two delimiters); the free-translation section has exactly 1 summary row
\* whose cell joins the payloads of the AI-section lines with fewer than
\* two delimiters followed by that of the reclassified literal line.
C11_ScenarioRows ==
    /\ DoneScenario =>
          /\ \E m \in Range(call.model_cols) :
                Len(ret.lit_rows) = 1 + ScenarioLiteralCount(m)
          /\ \A m \in Range(call.model_cols) :
                Len(ret.lit_rows) >= 1 + ScenarioLiteralCount(m)
          /\ ScenarioSummaryRow
    /\ (/\ DoneScenario
        /\ call.model_cols = Take(ModelColumns, 1)
        /\ call.row[ModelColumns[1]] = CellFull
        /\ ~call.color_pos_on) =>
          /\ Len(ret.lit_rows) = 3
          /\ ret.ai_rows = << <<L_AI_ENGLISH, <<"I", " ", "w", "e", "n", "t", " ",
                                                "h", "o", "m", "e", " ", "m", "e",
                                                " ", "f", "i", "e">> >> >>

\* C11 witness: the scenario with a cell whose AI section holds a line of
\* two delimiters: a heading row and three detail rows, and one summary
\* row.
C11_Witness ==
    /\ DoneScenario
    /\ call.model_cols = Take(ModelColumns, 1)
    /\ call.row[ModelColumns[1]] = CellFullHighAi
    /\ Len(ret.lit_rows) = 4
    /\ Len(ret.ai_rows) = 1
    /\ ret.ai_rows[1][2] = <<"s", "o", " ", "i", "t", " ", "g", "o", "e",
                             "s", " ", "y", "e">>

(***************************************************************************)
(* Summary mode of the literal section                                     *)
(***************************************************************************)
\* the literal bucket and the literal section text of model m
LiteralBucket(m) == ret.model_data[m].Literal_Bullets

LiteralText(m) == ret.model_data[m].Literal_Full

SomeLiteralBullets == \E m \in Range(call.model_cols) : LiteralBucket(m) # <<>>

SomeLiteralText == \E m \in Range(call.model_cols) : LiteralText(m) # <<>>

\* the source-language / target-language payloads of the lines of model m,
\* joined by single spaces
JoinedSourcePayloads(m) ==
    JoinSp([i \in 1..Len(LiteralBucket(m)) |->
               parse_bullet_line_for_akan_substring(LiteralBucket(m)[i], call.color_pos_on)])

JoinedTargetPayloads(m) ==
    JoinSp([i \in 1..Len(LiteralBucket(m)) |->
               parse_bullet_line_for_literal_substring(LiteralBucket(m)[i], call.color_pos_on)])

\* C12: with the literal-bullets toggle off: two rows when some model has
\* literal-bucket lines, the first joining each model's source-language
\* payloads with single spaces and the second its target-language
\* payloads; one row of the models' full literal section texts when no
\* model has such lines but some model has literal text; no row otherwise.
C12_LiteralSummaryRows ==
    (DoneDisplay /\ ~call.show_literal_bullets) =>
        LET names == ret.model_names
            rows == ret.lit_rows
        IN  /\ SomeLiteralBullets =>
                  /\ Len(rows) = 2
                  /\ \A k \in 1..Len(names) :
                        /\ rows[1][k + 1] = JoinedSourcePayloads(names[k])
                        /\ rows[2][k + 1] = JoinedTargetPayloads(names[k])
            /\ (~SomeLiteralBullets /\ SomeLiteralText) =>
                  /\ Len(rows) = 1
                  /\ \A k \in 1..Len(names) : rows[1][k + 1] = LiteralText(names[k])
            /\ (~SomeLiteralBullets /\ ~SomeLiteralText) => rows = <<>>
            /\ (/\ call.model_cols = Take(ModelColumns, 2)
                /\ call.row[ModelColumns[1]] = CellGeneric
                /\ call.row[ModelColumns[2]] = CellFullHighAi
                /\ ~call.color_pos_on) =>
                  rows = << <<L_AKAN, <<"H", "e", " ", "n", "a", " ", "p",
                                        "a", "a">>, <<>> >>,
                            <<L_LITERAL_ENGLISH, <<"s", "h", "e", " ", "a", "n", "d",
                                                   " ", "v", "e", "r", "y">>, <<>> >> >>
            /\ (/\ call.model_cols = Take(ModelColumns, 1)
                /\ call.row[ModelColumns[1]] = CellProse) =>
                  rows = << <<L_LITERAL_ENGLISH, <<"w", "o", "r", "d", " ", "f", "o",
                                                   "r", " ", "w", "o", "r", "d">> >> >>
            /\ (/\ call.model_cols = Take(ModelColumns, 1)
                /\ call.row[ModelColumns[1]] = CellGeneric) =>
                  rows = <<>>

\* C12 witness: two models, one with three literal-bucket lines and one
\* with none: two rows, the payloads of the first model joined by spaces
\* and the cells of the second empty.
C12_Witness ==
    /\ DoneDisplay
    /\ ~call.show_literal_bullets
    /\ ~call.color_pos_on
    /\ Len(ret.model_names) = 2
    /\ Len(LiteralBucket(ret.model_names[1])) = 3
    /\ LiteralBucket(ret.model_names[2]) = <<>>
    /\ Len(ret.lit_rows) = 2
    /\ ret.lit_rows[1][2] = <<"H", "e", " ", "n", "a", " ", "p", "a", "a">>
    /\ ret.lit_rows[2][2] = <<"s", "h", "e", " ", "a", "n", "d", " ", "v",
                              "e", "r", "y">>
    /\ ret.lit_rows[2][3] = <<>>

(***************************************************************************)
(* The placeholder                                                         *)
(***************************************************************************)
\* the four row lists are all empty
NoRows ==
    /\ ret.lit_rows = <<>>
    /\ ret.ai_rows = <<>>
    /\ ret.cult_rows = <<>>
    /\ ret.clar_rows = <<>>

AllTogglesOn ==
    /\ call.show_ai_bullets
    /\ call.show_literal_bullets
    /\ call.show_cultural
    /\ call.show_clarification

\* every model's cell text is ""
AllCellsEmpty == \A m \in Range(call.model_cols) : call.row[m] = <<>>

\* C13: the placeholder paragraph is rendered instead of a table exactly
\* when the literal, AI, cultural and clarification row lists are all
\* empty; a table always has a body row; with every cell "" and every
\* toggle on the output is the placeholder.
C13_PlaceholderIffNoRows ==
    DoneDisplay =>
        /\ ret.table_html.tag \in {"p", "table"}
        /\ ret.table_html.tag = "p" <=> NoRows
        /\ ret.table_html.tag = "p" => ret.table_html = NO_DATA_PLACEHOLDER
        /\ ret.table_html.tag = "table" =>
              /\ ret.table_html.body # <<>>
              /\ ret.table_html.body =
                    ret.lit_rows \o ret.ai_rows \o ret.cult_rows \o ret.clar_rows
        /\ (AllCellsEmpty /\ AllTogglesOn) => ret.table_html = NO_DATA_PLACEHOLDER

\* C13 witness: two models, both cells "", every toggle on: the
\* placeholder.
C13_Witness ==
    /\ DoneDisplay
    /\ Len(call.model_cols) = 2
    /\ AllCellsEmpty
    /\ AllTogglesOn
    /\ ret.table_html.tag = "p"
    /\ ret.table_html.text = NO_DATA_TEXT

(***************************************************************************)
(* parse_model_cell called on one cell text                                *)
(***************************************************************************)
MaxParseChunks == 3

\* pieces the explored cell texts are concatenated from: the bold and the
\* plain form of each heading, a bullet line of two delimiters and one of
\* none
ParseChunks ==
    { <<"*", "*", "A", "I", " ", "E", "n", "g", "l", "i", "s", "h", " ",
        "T", "r", "a", "n", "s", "l", "a", "t", "i", "o", "n", "*", "*",
        "\n">>,
      <<"E", "n", "g", "l", "i", "s", "h", " ", "T", "r", "a", "n", "s",
        "l", "a", "t", "i", "o", "n", ":", " ", "h", "i", "\n">>,
      <<"*", "*", "1", ".", " ", "L", "i", "t", "e", "r", "a", "l", " ",
        "T", "r", "a", "n", "s", "l", "a", "t", "i", "o", "n", " ", "M",
        "a", "p", "p", "i", "n", "g", "*", "*", "\n">>,
      <<"*", "*", "2", ".", " ", "C", "u", "l", "t", "u", "r", "a", "l",
        " ", "C", "o", "n", "t", "e", "x", "t", "*", "*", "\n">>,
      <<"2", ".", " ", "C", "u", "l", "t", "u", "r", "a", "l", " ", "C",
        "o", "n", "t", "e", "x", "t", ":", " ", "c", "t", "x", "\n">>,
      <<"*", "*", "3", ".", " ", "T", "r", "a", "n", "s", "l", "a", "t",
        "i", "o", "n", " ", "C", "l", "a", "r", "i", "f", "i", "c", "a",
        "t", "i", "o", "n", "*", "*", "\n">>,
      <<"3", ".", " ", "T", "r", "a", "n", "s", "l", "a", "t", "i", "o",
        "n", " ", "C", "l", "a", "r", "i", "f", "i", "c", "a", "t", "i",
        "o", "n", " ", "-", " ", "w", "h", "y", "\n">>,
      <<"-", " ", "a", " ", "=", ">", " ", "b", " ", "=", ">", " ", "c",
        "\n">>,
      <<BULLET, " ", LDQUO, "d", RDQUO, "\n">> }

ParseTexts == {Flatten(chunks) : chunks \in SeqUpTo(ParseChunks, MaxParseChunks)}

InitParse ==
    /\ pc = "call"
    /\ call = [fn |-> "none"]
    /\ ret = <<>>

Call_parse_model_cell ==
    /\ pc = "call"
    /\ \E cell_text \in ParseTexts :
          /\ call' = [fn |-> "parse_model_cell", cell_text |-> cell_text]
          /\ ret' = parse_model_cell(cell_text)
    /\ pc' = "done"

NextParse == Call_parse_model_cell

SpecParse == InitParse /\ [][NextParse]_vars

DoneParse == pc = "done" /\ call.fn = "parse_model_cell"

\* the stripped bold-marker extraction of a section of text
StrippedBold(text, sec) == Strip(BoldSection(text, sec))

\* the generic (plain header) extraction of a section of normalized text t
GenericFallback(t, sec) ==
    IF sec = "cultural"
    THEN extract_section_generic(t, H_CULT, <<H_CLAR, H_FOOT>>)
    ELSE extract_section_generic(t, H_CLAR, <<H_FOOT>>)

\* C14: Cultural Context and Clarification are the stripped bold-marker
\* extraction whenever that is non-blank and the generic extraction only
\* otherwise; the AI text is the stripped bold-marker extraction unless
\* that is blank, and only then the "English Translation:" match (when
\* there is one); the literal text is always the stripped bold-marker
\* extraction.
C14_StrategyPrecedence ==
    DoneParse =>
        \A text \in {call.cell_text} :
        \A t \in {normalize_text(text)} :
        \A ai_bold \in {StrippedBold(text, "ai")} :
        \A cult_bold \in {StrippedBold(text, "cultural")} :
        \A clar_bold \in {StrippedBold(text, "clarification")} :
        \A english \in {english_translation_fallback(t)} :
            /\ cult_bold # <<>> => ret.Cultural = cult_bold
            /\ cult_bold = <<>> => ret.Cultural = GenericFallback(t, "cultural")
            /\ clar_bold # <<>> => ret.Clarification = clar_bold
            /\ clar_bold = <<>> => ret.Clarification = GenericFallback(t, "clarification")
            /\ ai_bold # <<>> => ret.AI_English_Full = ai_bold
            /\ (ai_bold = <<>> /\ english # PyNone) => ret.AI_English_Full = Strip(english)
            /\ (ai_bold = <<>> /\ english = PyNone) => ret.AI_English_Full = <<>>
            /\ ret.Literal_Full = StrippedBold(text, "literal")
            /\ text = <<"*", "*", "2", ".", " ", "C", "u", "l", "t", "u",
                        "r", "a", "l", " ", "C", "o", "n", "t", "e", "x",
                        "t", "*", "*", "\n", "2", ".", " ", "C", "u", "l",
                        "t", "u", "r", "a", "l", " ", "C", "o", "n", "t",
                        "e", "x", "t", ":", " ", "c", "t", "x", "\n">> =>
                  ret.Cultural = <<"2", ".", " ", "C", "u", "l", "t", "u",
                                   "r", "a", "l", " ", "C", "o", "n", "t",
                                   "e", "x", "t", ":", " ", "c", "t", "x">>
            /\ text = <<"2", ".", " ", "C", "u", "l", "t", "u", "r", "a",
                        "l", " ", "C", "o", "n", "t", "e", "x", "t", ":",
                        " ", "c", "t", "x", "\n", "*", "*", "2", ".", " ",
                        "C", "u", "l", "t", "u", "r", "a", "l", " ", "C",
                        "o", "n", "t", "e", "x", "t", "*", "*", "\n">> =>
                  ret.Cultural = <<"c", "t", "x", "\n", "*", "*">>
            /\ text = <<"*", "*", "A", "I", " ", "E", "n", "g", "l", "i",
                        "s", "h", " ", "T", "r", "a", "n", "s", "l", "a",
                        "t", "i", "o", "n", "*", "*", "\n", "E", "n", "g",
                        "l", "i", "s", "h", " ", "T", "r", "a", "n", "s",
                        "l", "a", "t", "i", "o", "n", ":", " ", "h", "i",
                        "\n">> =>
                  ret.AI_English_Full = <<"E", "n", "g", "l", "i", "s", "h",
                                          " ", "T", "r", "a", "n", "s", "l",
                                          "a", "t", "i", "o", "n", ":", " ",
                                          "h", "i">>
            /\ text = <<"E", "n", "g", "l", "i", "s", "h", " ", "T", "r",
                        "a", "n", "s", "l", "a", "t", "i", "o", "n", ":",
                        " ", "h", "i", "\n", "*", "*", "A", "I", " ", "E",
                        "n", "g", "l", "i", "s", "h", " ", "T", "r", "a",
                        "n", "s", "l", "a", "t", "i", "o", "n", "*", "*",
                        "\n">> =>
                  ret.AI_English_Full = <<"h", "i", "\n", "*", "*", "A", "I",
                                          " ", "E", "n", "g", "l", "i", "s",
                                          "h", " ", "T", "r", "a", "n", "s",
                                          "l", "a", "t", "i", "o", "n", "*",
                                          "*">>
            /\ text = <<"*", "*", "1", ".", " ", "L", "i", "t", "e", "r",
                        "a", "l", " ", "T", "r", "a", "n", "s", "l", "a",
                        "t", "i", "o", "n", " ", "M", "a", "p", "p", "i",
                        "n", "g", "*", "*", "\n", "3", ".", " ", "T", "r",
                        "a", "n", "s", "l", "a", "t", "i", "o", "n", " ",
                        "C", "l", "a", "r", "i", "f", "i", "c", "a", "t",
                        "i", "o", "n", " ", "-", " ", "w", "h", "y", "\n">> =>
                  /\ ret.Literal_Full = <<"3", ".", " ", "T", "r", "a", "n",
                                          "s", "l", "a", "t", "i", "o", "n",
                                          " ", "C", "l", "a", "r", "i", "f",
                                          "i", "c", "a", "t", "i", "o", "n",
                                          " ", "-", " ", "w", "h", "y">>
                  /\ ret.Clarification = <<"w", "h", "y">>

\* C14 witness: a cell holding both the bold Cultural Context heading with
\* text under it and, inside that text, a plain heading the generic
\* extraction matches: the bold extraction is the value.
C14_Witness ==
    /\ DoneParse
    /\ call.cell_text = <<"*", "*", "2", ".", " ", "C", "u", "l", "t", "u",
                          "r", "a", "l", " ", "C", "o", "n", "t", "e", "x",
                          "t", "*", "*", "\n", "2", ".", " ", "C", "u",
                          "l", "t", "u", "r", "a", "l", " ", "C", "o", "n",
                          "t", "e", "x", "t", ":", " ", "c", "t", "x",
                          "\n">>
    /\ GenericFallback(normalize_text(call.cell_text), "cultural") = <<"c", "t", "x">>
    /\ StrippedBold(call.cell_text, "cultural") = <<"2", ".", " ", "C", "u", "l", "t",
                                                    "u", "r", "a", "l", " ", "C", "o",
                                                    "n", "t", "e", "x", "t", ":", " ",
                                                    "c", "t", "x">>
    /\ ret.Cultural = StrippedBold(call.cell_text, "cultural")

(***************************************************************************)
(* Table shape                                                             *)
(***************************************************************************)
\* name a comes before name b in the order of str: at the first position
\* where they differ a has the character of lower code point (upper-case
\* letters come before lower-case letters), or a is a proper prefix of b
NameBefore(a, b) ==
    \E k \in 0..Len(a) :
        /\ k <= Len(b)
        /\ SubSeq(a, 1, k) = SubSeq(b, 1, k)
        /\ \/ k = Len(a) /\ k < Len(b)
           \/ /\ k < Len(a)
              /\ k < Len(b)
              /\ CodePoint(a[k + 1]) < CodePoint(b[k + 1])

\* name a comes after name b in alphabetical order, in which the case of a
\* letter does not count
AlphabeticallyAfter(a, b) == NameBefore(LowerStr(b), LowerStr(a))

\* the labels a row of the table can have
RowLabels ==
    {<<>>, L_LITERAL_MAPPING, L_AKAN, L_LITERAL_ENGLISH, L_AI_ENGLISH,
     L_CULTURAL, L_CLARIFICATION}

\* every row is a label followed by one cell per model, the models being
\* the given columns in one order for the header and every row
OneCellPerModel ==
    LET names == ret.model_names
        n == Len(names)
    IN  /\ n = Len(call.model_cols)
        /\ Range(names) = Range(call.model_cols)
        /\ \A i \in 1..Len(ret.all_rows) :
              /\ Len(ret.all_rows[i]) = 1 + n
              /\ ret.all_rows[i][1] \in RowLabels
        /\ ret.table_html.tag = "table" =>
              /\ ret.table_html.header = <<L_SECTION>> \o names
              /\ ret.table_html.body = ret.all_rows
        /\ \A k \in 1..n :
              /\ ret.cult_rows # <<>> =>
                    ret.cult_rows[1][k + 1] = ret.model_data[names[k]].Cultural
              /\ ret.clar_rows # <<>> =>
                    ret.clar_rows[1][k + 1] = ret.model_data[names[k]].Clarification
              /\ (ret.lit_rows # <<>> /\ call.show_literal_bullets /\ SomeLiteralBullets) =>
                    \A i \in 2..Len(ret.lit_rows) :
                        ret.lit_rows[i][k + 1] # <<>> <=>
                            i - 1 <= Len(LiteralBucket(names[k]))

\* C15 as stated: every assembled row is the row label followed by exactly
\* one cell per model, the models in ascending alphabetical order of name,
\* the same in the table header and in every row.
C15_AlphabeticalTableShape ==
    DoneDisplay =>
        /\ OneCellPerModel
        /\ \A i \in 1..Len(ret.model_names) : \A j \in 1..Len(ret.model_names) :
              i < j => ~AlphabeticallyAfter(ret.model_names[i], ret.model_names[j])

\* C15: every assembled row is the row label followed by exactly one cell
\* per model; the models are the given columns in the ascending order of
\* str (by code point: every upper-case letter before every lower-case
\* one, so Llama before gpt), the same in the table header and in every
\* row, so that column k + 1 of a row holds the value of the k-th model in
\* that order.
C15_TableShape ==
    DoneDisplay =>
        /\ OneCellPerModel
        /\ \A i \in 1..Len(ret.model_names) : \A j \in 1..Len(ret.model_names) :
              i < j => NameBefore(ret.model_names[i], ret.model_names[j])
        /\ call.model_cols = << <<"g", "p", "t">>, <<"L", "l", "a", "m", "a">> >> =>
              ret.model_names = << <<"L", "l", "a", "m", "a">>, <<"g", "p", "t">> >>

\* C15 witness: the columns given as gpt, Llama: a table headed Section,
\* Llama, gpt (not the alphabetical gpt, Llama) whose cultural row holds
\* the text of Llama's cell before that of gpt's cell.
C15_Witness ==
    /\ DoneDisplay
    /\ call.model_cols = << <<"g", "p", "t">>, <<"L", "l", "a", "m", "a">> >>
    /\ call.row[ModelColumns[1]] = CellGeneric
    /\ call.row[ModelColumns[2]] = CellFullHighAi
    /\ ret.table_html.tag = "table"
    /\ ret.table_html.header = <<L_SECTION, <<"L", "l", "a", "m", "a">>, <<"g", "p", "t">> >>
    /\ ret.cult_rows = << <<L_CULTURAL, <<"x">>, <<"P", "r", "o", "v", "e", "r", "b",
                                                 "s", " ", "m", "a", "t", "t", "e",
                                                 "r", ".">> >> >>
    /\ \A i \in 1..Len(ret.table_html.body) : Len(ret.table_html.body[i]) = 3

(***************************************************************************)
(* Cultural Context and Clarification rows                                 *)
(***************************************************************************)
\* the rows, the toggle, the label and the stored text of the two sections
ContextRows(sec) == IF sec = "cultural" THEN ret.cult_rows ELSE ret.clar_rows

ContextToggle(sec) ==
    IF sec = "cultural" THEN call.show_cultural ELSE call.show_clarification

ContextLabel(sec) == IF sec = "cultural" THEN L_CULTURAL ELSE L_CLARIFICATION

ContextText(sec, m) ==
    IF sec = "cultural" THEN ret.model_data[m].Cultural
    ELSE ret.model_data[m].Clarification

\* C16: Cultural Context and Clarification each contribute at most one
\* row, the label followed by each model's text as stored, bullet lines in
\* it included; the row is present exactly when the section's own toggle
\* is on and some model's text is non-blank, whatever the other toggles.
C16_ContextRows ==
    DoneDisplay =>
        /\ \A sec \in {"cultural", "clarification"} :
              LET rows == ContextRows(sec)
                  names == ret.model_names
              IN  /\ Len(rows) <= 1
                  /\ rows # <<>> <=>
                        /\ ContextToggle(sec)
                        /\ \E m \in Range(call.model_cols) : Strip(ContextText(sec, m)) # <<>>
                  /\ rows # <<>> =>
                        rows[1] = <<ContextLabel(sec)>>
                                    \o [k \in 1..Len(names) |-> ContextText(sec, names[k])]
        /\ (/\ call.model_cols = Take(ModelColumns, 1)
            /\ call.row[ModelColumns[1]] = CellAiBullets
            /\ call.show_cultural) =>
              /\ ret.cult_rows = << <<L_CULTURAL, <<"-", " ", "k", " ", "=", ">", " ",
                                                    "l", " ", "=", ">", " ", "N", "o",
                                                    "u", "n", "\n", "-", " ", "p", "l",
                                                    "a", "i", "n">> >> >>
              /\ ret.clar_rows = <<>>
        /\ (/\ call.model_cols = Take(ModelColumns, 1)
            /\ call.row[ModelColumns[1]] = CellSwapped
            /\ call.show_clarification) =>
              /\ ret.cult_rows = <<>>
              /\ ret.clar_rows = << <<L_CLARIFICATION, <<"c">> >> >>

\* C16 witness: cultural toggle on, clarification toggle off, colouring and
\* both bullet toggles on, a cultural text of two bullet lines: one
\* cultural row holding the two lines, no clarification row.
C16_Witness ==
    /\ DoneDisplay
    /\ call.show_cultural
    /\ ~call.show_clarification
    /\ call.show_ai_bullets /\ call.show_literal_bullets /\ call.color_pos_on
    /\ call.model_cols = Take(ModelColumns, 2)
    /\ call.row[ModelColumns[1]] = CellAiBullets
    /\ call.row[ModelColumns[2]] = CellFull
    /\ ret.clar_rows = <<>>
    /\ ret.cult_rows = << <<L_CULTURAL, <<"H", "o", "m", "e", " ", "i", "s",
                                          " ", "c", "e", "n", "t", "r", "a",
                                          "l", ".">>, <<"-", " ", "k", " ", "=", ">", " ",
                                                                "l", " ", "=", ">", " ", "N", "o",
                                                                "u", "n", "\n", "-", " ", "p", "l",
                                                                "a", "i", "n">> >> >>

(***************************************************************************)
(* normalize_text called on a value, then on its own result                *)
(***************************************************************************)
MaxNormLen == 3

\* the characters normalize_text replaces, their replacements and a letter
NormAlphabet == {LDQUO, RDQUO, LSQUO, RSQUO, ENDASH, EMDASH, QUOTE, "'", "-", "a"}

\* str values up to MaxNormLen characters, and a value that is not a str
NormInputs == SeqUpTo(NormAlphabet, MaxNormLen) \cup {PyNone}

InitNormalize ==
    /\ pc = "call"
    /\ call = [fn |-> "none"]
    /\ ret = <<>>

Call_normalize_text ==
    /\ pc = "call"
    /\ \E t \in NormInputs :
          /\ call' = [fn |-> "normalize_text", t |-> t, first |-> t]
          /\ ret' = normalize_text(t)
    /\ pc' = "done"

\* normalize_text called on the value the first call returned
Call_normalize_text_again ==
    /\ pc = "done"
    /\ call.fn = "normalize_text"
    /\ call' = [fn |-> "normalize_text", t |-> ret, first |-> call.first]
    /\ ret' = normalize_text(ret)
    /\ pc' = "again"

NextNormalize == Call_normalize_text \/ Call_normalize_text_again

SpecNormalize == InitNormalize /\ [][NextNormalize]_vars

\* the characters normalize_text removes
CurlyOrDash == {LDQUO, RDQUO, LSQUO, RSQUO, ENDASH, EMDASH}

\* C17: normalize_text applied to its own result returns that result
\* unchanged, also for an input that is not a str (whose result is ""),
\* and no result holds a curly quote or an en or em dash.
C17_NormalizeIdempotent ==
    (pc \in {"done", "again"} /\ call.fn = "normalize_text") =>
        /\ pc = "again" => ret = call.t
        /\ \A i \in 1..Len(ret) : ret[i] \notin CurlyOrDash
        /\ call.first = PyNone => ret = <<>>
        /\ call.first = <<LDQUO, "a", RDQUO>> => ret = <<QUOTE, "a", QUOTE>>
        /\ call.first = <<LSQUO, EMDASH, ENDASH>> => ret = <<"'", "-", "-">>

\* C17 witness: a text with an em dash was changed by the first call and
\* came back unchanged from the second.
C17_Witness ==
    /\ pc = "again"
    /\ call.fn = "normalize_text"
    /\ \E i \in 1..Len(call.first) : call.first[i] = EMDASH
    /\ call.first # call.t
    /\ ret = call.t

(***************************************************************************)
(* The Streamlit scripts.  A call is one run of a script, started by one   *)
(* widget event; ret holds what outlives the run: st.session_state, the    *)
(* state of the widgets the run rendered and what the run displayed.  A    *)
(* run is taken in three steps: mode and story selection, navigation,      *)
(* display.                                                                *)
(***************************************************************************)
MaxStoryLines == 6

\* df_stories["Name"]
story_names == <<"Anansi1", "Anansi2", "Anansi3", "Anansi4">>

\* os.path.exists of the story's AkanEnglishAligned.xlsx
AlignedFileExists(story) == story # "Anansi3"

\* len(df_aligned.columns): the aligned file of Anansi4 has the AKAN column
\* only, the others have the columns AKAN, ENGLISH
AlignedColumns(story) == IF story = "Anansi4" THEN 1 ELSE 2

\* len(df_aligned): the lines of the aligned file
AlignedLines(story) == IF story = "Anansi1" THEN MaxStoryLines ELSE 3

\* len(df_combined): the outer merge of the aligned file with the model
\* sheets keeps every aligned line and adds the lines only a model sheet has
CombinedLines(story) ==
    IF story = "Anansi1" THEN MaxStoryLines + 2 ELSE AlignedLines(story)

Apps == {"LocalAIModel_app", "LocalStoryNavigator_app"}

modes == <<"StoryNavigator", "AIModel">>

ToggleKeys ==
    {"show_literal_bullets", "show_ai_bullets", "show_cultural",
     "show_clarification", "color_pos"}

\* st.session_state before the first run: no key is set
EmptySession ==
    [keys |-> {}, line_idx |-> 0, story |-> "", selected_story |-> "",
     ai_mode_inited |-> FALSE, show_literal_bullets |-> FALSE,
     show_ai_bullets |-> FALSE, show_cultural |-> FALSE,
     show_clarification |-> FALSE, color_pos |-> FALSE]

\* key in st.session_state
Has(ss, key) == key \in ss.keys

\* st.session_state[key] = value
Put(ss, key, value) == [ss EXCEPT ![key] = value, !.keys = @ \cup {key}]

\* st.session_state.setdefault(key, value)
SetDefault(ss, key, value) == IF Has(ss, key) THEN ss ELSE Put(ss, key, value)

max2(a, b) == IF a > b THEN a ELSE b

min2(a, b) == IF a < b THEN a ELSE b

\* no slider was rendered by the last run
NoSlider == [rendered |-> FALSE, max_value |-> 0, value |-> 0, state |-> 0]

\* st.slider("Select line #", 1, num_lines, value, 1) is given a value
\* outside 1..num_lines
SliderOutOfRange(num_lines, value) == value < 1 \/ value > num_lines

\* what st.slider does with its arguments.  The scripts fix no version of
\* the library: given a value outside its range it either raises, which
\* ends the run, or widens the range to hold the value
SliderOutcomes(num_lines, value) ==
    IF SliderOutOfRange(num_lines, value) THEN {"raises", "widens"} ELSE {"renders"}

\* the values the user can move a rendered slider to
SliderRange(slider) ==
    min2(1, slider.value)..max2(slider.max_value, slider.value)

\* what st.slider returns: a slider without key is the same widget as the
\* one of the last run only if its arguments are the same, and then it
\* returns the value the user moved it to (in this run or before); a
\* slider with other arguments is a new widget and returns its value
\* argument
SliderReturn(old, num_lines, value, event, arg) ==
    IF old.rendered /\ old.max_value = num_lines /\ old.value = value
    THEN IF event = "slider" THEN arg ELSE old.state
    ELSE value

\* story_names.index(story)
index_of(names, story) == CHOOSE i \in 1..Len(names) : names[i] = story

\* what st.selectbox("Choose a Story", story_names, index=...) returns: a
\* selectbox without key is the same widget as the one of the last run only
\* if its arguments are the same, and then it returns the option the user
\* picked (in this run or before); a selectbox with another index is a new
\* widget and returns the option at its index
SelectboxReturn(rendered, old_index, old_state, options, index, event, arg) ==
    IF rendered /\ old_index = index
    THEN IF event = "story" THEN arg ELSE old_state
    ELSE options[index]

\* no checkbox was rendered by the last run
NoCheckboxes ==
    [rendered |-> FALSE, value |-> [k \in ToggleKeys |-> FALSE],
     state |-> [k \in ToggleKeys |-> FALSE]]

\* what st.checkbox(label, value=...) returns: the checkbox of the last run
\* if its value argument is the same, with the state the user's click gave
\* it; else a new widget, which returns its value argument
CheckboxReturn(old, key, value, clicked) ==
    IF old.rendered /\ old.value[key] = value
    THEN IF clicked THEN ~old.state[key] ELSE old.state[key]
    ELSE value

\* lines 564-567
main_init_session(ss) == SetDefault(SetDefault(ss, "line_idx", 1), "story", "")

\* lines 656-664
main_init_ai_mode(ss) ==
    IF Has(ss, "ai_mode_inited") THEN ss
    ELSE SetDefault(SetDefault(SetDefault(SetDefault(SetDefault(
             Put(ss, "ai_mode_inited", TRUE),
             "show_literal_bullets", FALSE), "show_ai_bullets", FALSE),
             "show_cultural", FALSE), "show_clarification", FALSE),
             "color_pos", TRUE)

\* lines 585-587 and 672-674: ensure st.session_state["story"] is valid
main_valid_story(ss) ==
    IF ss.story \notin Range(story_names) THEN Put(ss, "story", story_names[1]) ELSE ss

\* lines 597-599 and 684-686: if the story changed, reset the line
main_story_selection(ss, chosen_story_name) ==
    Put(IF chosen_story_name # ss.story THEN Put(ss, "line_idx", 1) ELSE ss,
        "story", chosen_story_name)

\* LocalStoryNavigator_app lines 86-92
navigator_story_selection(ss, chosen_story_name) ==
    IF ~Has(ss, "selected_story") THEN Put(ss, "selected_story", chosen_story_name)
    ELSE Put(IF chosen_story_name # ss.selected_story THEN Put(ss, "line_idx", 1) ELSE ss,
             "selected_story", chosen_story_name)

\* len(df_aligned) in StoryNavigator mode, len(df_combined) in AIModel mode
main_num_lines(selected_mode, story) ==
    IF selected_mode = "StoryNavigator" THEN AlignedLines(story) ELSE CombinedLines(story)

\* lines 620-625 and 724-729: the << and < buttons, on the line index read
\* before the buttons
main_dec_buttons(ss, line_idx, event) ==
    IF event = "dec5" THEN Put(ss, "line_idx", max2(1, line_idx - 5))
    ELSE IF event = "dec1" THEN Put(ss, "line_idx", max2(1, line_idx - 1))
    ELSE ss

\* lines 628-629 and 732-733
main_slider(ss, line_idx, new_val) ==
    IF new_val # line_idx THEN Put(ss, "line_idx", new_val) ELSE ss

\* lines 630-635 and 734-739: the > and >> buttons
main_inc_buttons(ss, line_idx, num_lines, event) ==
    IF event = "inc1" THEN Put(ss, "line_idx", min2(num_lines, line_idx + 1))
    ELSE IF event = "inc5" THEN Put(ss, "line_idx", min2(num_lines, line_idx + 5))
    ELSE ss

\* LocalStoryNavigator_app lines 118-135: the four buttons, each on the
\* stored line index
navigator_buttons(ss, num_lines, event) ==
    IF event = "dec5" THEN Put(ss, "line_idx", max2(1, ss.line_idx - 5))
    ELSE IF event = "dec1" THEN Put(ss, "line_idx", max2(1, ss.line_idx - 1))
    ELSE IF event = "inc1" THEN Put(ss, "line_idx", min2(num_lines, ss.line_idx + 1))
    ELSE IF event = "inc5" THEN Put(ss, "line_idx", min2(num_lines, ss.line_idx + 5))
    ELSE ss

\* LocalStoryNavigator_app lines 146-147
navigator_slider(ss, new_val) ==
    IF new_val # ss.line_idx THEN Put(ss, "line_idx", new_val) ELSE ss

\* lines 748-752: each key is set to what its checkbox returns, the
\* checkbox being created with the key's value
main_toggles(ss, old, event, key) ==
    LET new(k) == CheckboxReturn(old, k, ss[k], event = "toggle" /\ key = k)
    IN  [ss EXCEPT !.show_literal_bullets = new("show_literal_bullets"),
                   !.show_ai_bullets = new("show_ai_bullets"),
                   !.show_cultural = new("show_cultural"),
                   !.show_clarification = new("show_clarification"),
                   !.color_pos = new("color_pos")]

\* lines 757-759
LineIndexOutOfRange(selected_idx, num_lines) ==
    selected_idx < 0 \/ selected_idx >= num_lines

NoEvent == [event |-> "rerun", story |-> "", value |-> 0, key |-> ""]

\* the widget events that can start the next run: one event of one widget
\* the last run rendered, or a rerun without any (the first load, the font
\* size slider)
Events(r) ==
    {NoEvent}
    \cup {[NoEvent EXCEPT !.event = "mode", !.key = m] :
            m \in {m \in Range(modes) : "mode" \in r.rendered /\ m # r.selected_mode}}
    \cup {[NoEvent EXCEPT !.event = "story", !.story = s] :
            s \in {s \in Range(story_names) :
                     "story" \in r.rendered /\ s # r.chosen_story_name}}
    \cup {[NoEvent EXCEPT !.event = e] :
            e \in {e \in {"dec5", "dec1"} : "dec" \in r.rendered}}
    \cup {[NoEvent EXCEPT !.event = e] :
            e \in {e \in {"inc1", "inc5"} : "inc" \in r.rendered}}
    \cup {[NoEvent EXCEPT !.event = "slider", !.value = v] :
            v \in {v \in SliderRange(r.slider) :
                     r.slider.rendered /\ v # r.slider.state}}
    \cup {[NoEvent EXCEPT !.event = "toggle", !.key = k] :
            k \in {k \in ToggleKeys : "toggles" \in r.rendered}}

InitSession ==
    /\ pc = "idle"
    /\ call = [fn |-> "none", event |-> "none", story |-> "", value |-> 0, key |-> ""]
    /\ \E app \in Apps :
          ret = [app |-> app, ss |-> EmptySession,
                 selected_mode |-> modes[1], chosen_story_name |-> story_names[1],
                 story_index |-> 1, slider |-> NoSlider,
                 checkboxes |-> NoCheckboxes, rendered |-> {}, num_lines |-> 0,
                 view |-> "none"]

\* LocalAIModel_app.main up to the navigation widgets: lines 564-617 in
\* StoryNavigator mode, 564-571 and 653-722 in AIModel mode.  The run ends
\* early without an aligned file, without lines (StoryNavigator), with fewer
\* than 2 columns (AIModel, lines 697-699), and with the ValueError of
\* pandas when two column names are assigned to another number of columns
\* (lines 613 and 700)
Main_SelectStory ==
    /\ pc = "idle"
    /\ ret.app = "LocalAIModel_app"
    /\ \E ev \in Events(ret) :
          LET selected_mode == IF ev.event = "mode" THEN ev.key ELSE ret.selected_mode
              ss1 == main_init_session(ret.ss)
              ss2 == IF selected_mode = "AIModel" THEN main_init_ai_mode(ss1) ELSE ss1
              ss3 == main_valid_story(ss2)
              index == index_of(story_names, ss3.story)
              chosen_story_name ==
                  SelectboxReturn("story" \in ret.rendered, ret.story_index,
                                  ret.chosen_story_name, story_names, index,
                                  ev.event, ev.story)
              ss4 == main_story_selection(ss3, chosen_story_name)
              num_lines == main_num_lines(selected_mode, chosen_story_name)
              r1 == [ret EXCEPT !.ss = ss4,
                                !.selected_mode = selected_mode,
                                !.chosen_story_name = chosen_story_name,
                                !.story_index = index,
                                !.rendered = {"mode", "story"}]
          IN  /\ call' = [fn |-> "main", event |-> ev.event, story |-> ev.story,
                          value |-> ev.value, key |-> ev.key]
              /\ IF ~AlignedFileExists(chosen_story_name)
                 THEN /\ ret' = [r1 EXCEPT !.slider = NoSlider, !.num_lines = 0,
                                           !.checkboxes = NoCheckboxes,
                                           !.view = "no_aligned_file"]
                      /\ pc' = "idle"
                 ELSE IF selected_mode = "StoryNavigator" /\ num_lines = 0
                 THEN /\ ret' = [r1 EXCEPT !.slider = NoSlider, !.num_lines = 0,
                                           !.checkboxes = NoCheckboxes,
                                           !.view = "no_lines"]
                      /\ pc' = "idle"
                 ELSE IF selected_mode = "AIModel" /\ AlignedColumns(chosen_story_name) < 2
                 THEN /\ ret' = [r1 EXCEPT !.slider = NoSlider, !.num_lines = 0,
                                           !.checkboxes = NoCheckboxes,
                                           !.view = "expecting_2_columns"]
                      /\ pc' = "idle"
                 ELSE IF AlignedColumns(chosen_story_name) # 2
                 THEN /\ ret' = [r1 EXCEPT !.slider = NoSlider, !.num_lines = 0,
                                           !.checkboxes = NoCheckboxes,
                                           !.view = "ValueError"]
                      /\ pc' = "idle"
                 ELSE /\ ret' = [r1 EXCEPT !.num_lines = num_lines, !.view = "running"]
                      /\ pc' = "nav"

\* the navigation widgets of LocalAIModel_app.main: lines 618-635 and
\* 722-739
Main_Navigate ==
    /\ pc = "nav"
    /\ ret.app = "LocalAIModel_app"
    /\ LET num_lines == ret.num_lines
           line_idx == ret.ss.line_idx
           ss1 == main_dec_buttons(ret.ss, line_idx, call.event)
           new_val == SliderReturn(ret.slider, num_lines, line_idx, call.event, call.value)
           ss2 == main_slider(ss1, line_idx, new_val)
           ss3 == main_inc_buttons(ss2, line_idx, num_lines, call.event)
       IN  \E outcome \in SliderOutcomes(num_lines, line_idx) :
           IF outcome = "raises"
           THEN /\ ret' = [ret EXCEPT !.ss = ss1, !.slider = NoSlider,
                                      !.checkboxes = NoCheckboxes,
                                      !.rendered = @ \cup {"dec"},
                                      !.view = "slider_exception"]
                /\ pc' = "idle"
           ELSE /\ ret' = [ret EXCEPT !.ss = ss3,
                                      !.slider = [rendered |-> TRUE, max_value |-> num_lines,
                                                  value |-> line_idx, state |-> new_val],
                                      !.rendered = @ \cup {"dec", "slider", "inc"}]
                /\ pc' = "render"
    /\ UNCHANGED call

\* the display of LocalAIModel_app.main: lines 637-648 and 741-782
Main_Render ==
    /\ pc = "render"
    /\ ret.app = "LocalAIModel_app"
    /\ IF ret.selected_mode = "StoryNavigator"
       THEN ret' = [ret EXCEPT !.checkboxes = NoCheckboxes, !.view = "story_table"]
       ELSE ret' = [ret EXCEPT !.ss = main_toggles(@, ret.checkboxes, call.event, call.key),
                               !.checkboxes =
                                   [rendered |-> TRUE,
                                    value |-> [k \in ToggleKeys |-> ret.ss[k]],
                                    state |-> [k \in ToggleKeys |->
                                                 main_toggles(ret.ss, ret.checkboxes,
                                                              call.event, call.key)[k]]],
                               !.rendered = @ \cup {"toggles"},
                               !.view = IF LineIndexOutOfRange(ret.ss.line_idx - 1, ret.num_lines)
                                        THEN "line_index_out_of_range"
                                        ELSE "ai_table"]
    /\ pc' = "idle"
    /\ UNCHANGED call

\* LocalStoryNavigator_app up to the navigation widgets: lines 75-111
Navigator_SelectStory ==
    /\ pc = "idle"
    /\ ret.app = "LocalStoryNavigator_app"
    /\ \E ev \in Events(ret) :
          LET chosen_story_name ==
                  SelectboxReturn("story" \in ret.rendered, ret.story_index,
                                  ret.chosen_story_name, story_names, 1,
                                  ev.event, ev.story)
              ss1 == navigator_story_selection(ret.ss, chosen_story_name)
              num_lines == AlignedLines(chosen_story_name)
              r1 == [ret EXCEPT !.ss = ss1,
                                !.chosen_story_name = chosen_story_name,
                                !.rendered = {"story"}]
          IN  /\ call' = [fn |-> "LocalStoryNavigator_app", event |-> ev.event,
                          story |-> ev.story, value |-> ev.value, key |-> ev.key]
              /\ IF ~AlignedFileExists(chosen_story_name)
                 THEN /\ ret' = [r1 EXCEPT !.slider = NoSlider, !.num_lines = 0,
                                           !.checkboxes = NoCheckboxes,
                                           !.view = "no_aligned_file"]
                      /\ pc' = "idle"
                 ELSE IF num_lines = 0
                 THEN /\ ret' = [r1 EXCEPT !.slider = NoSlider, !.num_lines = 0,
                                           !.checkboxes = NoCheckboxes,
                                           !.view = "no_lines"]
                      /\ pc' = "idle"
                 ELSE /\ ret' = [r1 EXCEPT !.num_lines = num_lines, !.view = "running"]
                      /\ pc' = "nav"

\* the navigation widgets of LocalStoryNavigator_app: lines 113-148
Navigator_Navigate ==
    /\ pc = "nav"
    /\ ret.app = "LocalStoryNavigator_app"
    /\ LET num_lines == ret.num_lines
           ss1 == SetDefault(ret.ss, "line_idx", 1)
           ss2 == navigator_buttons(ss1, num_lines, call.event)
           new_val == SliderReturn(ret.slider, num_lines, ss2.line_idx, call.event, call.value)
           ss3 == navigator_slider(ss2, new_val)
       IN  \E outcome \in SliderOutcomes(num_lines, ss2.line_idx) :
           IF outcome = "raises"
           THEN /\ ret' = [ret EXCEPT !.ss = ss2, !.slider = NoSlider,
                                      !.checkboxes = NoCheckboxes,
                                      !.rendered = @ \cup {"dec", "inc"},
                                      !.view = "slider_exception"]
                /\ pc' = "idle"
           ELSE /\ ret' = [ret EXCEPT !.ss = ss3,
                                      !.slider = [rendered |-> TRUE, max_value |-> num_lines,
                                                  value |-> ss2.line_idx, state |-> new_val],
                                      !.rendered = @ \cup {"dec", "slider", "inc"}]
                /\ pc' = "render"
    /\ UNCHANGED call

\* the display of LocalStoryNavigator_app: lines 150-162; make_html_table
\* reads row['AKAN'] and row['ENGLISH'] and raises KeyError on a file
\* without one of them
Navigator_Render ==
    /\ pc = "render"
    /\ ret.app = "LocalStoryNavigator_app"
    /\ ret' = [ret EXCEPT !.view = IF AlignedColumns(ret.chosen_story_name) < 2
                                   THEN "KeyError"
                                   ELSE "story_table"]
    /\ pc' = "idle"
    /\ UNCHANGED call

NextSession ==
    \/ Main_SelectStory
    \/ Main_Navigate
    \/ Main_Render
    \/ Navigator_SelectStory
    \/ Navigator_Navigate
    \/ Navigator_Render

SpecSession == InitSession /\ [][NextSession]_vars

\* a run of LocalAIModel_app.main is about to create the line slider
MainAtSlider == ret.app = "LocalAIModel_app" /\ pc = "nav"

\* a run of LocalAIModel_app.main has ended with the view of a story
MainDisplayed ==
    /\ ret.app = "LocalAIModel_app"
    /\ pc = "idle"
    /\ ret.view \notin {"none", "no_aligned_file", "no_lines",
                        "expecting_2_columns", "ValueError"}

\* C18: in LocalAIModel_app.main, whatever buttons, slider moves, story
\* changes and mode switches came before, the stored line index is within
\* 1..num_lines of the view on display: the line slider is never created
\* with a value outside its range and "Line index out of range." is never
\* shown.
C18_LineIndexInRange ==
    /\ MainAtSlider => ~SliderOutOfRange(ret.num_lines, ret.ss.line_idx)
    /\ MainDisplayed =>
          /\ ret.view \notin {"slider_exception", "line_index_out_of_range"}
          /\ ret.ss.line_idx \in 1..ret.num_lines

\* the session key under which each script stores the story
StoryKey(r) == IF r.app = "LocalAIModel_app" THEN "story" ELSE "selected_story"

HasStoredStory(r) == Has(r.ss, StoryKey(r))

StoredStory(r) == r.ss[StoryKey(r)]

\* the stored line index, 0 while the key is not set
StoredLine(r) == IF Has(r.ss, "line_idx") THEN r.ss.line_idx ELSE 0

\* n clamped to 1..num_lines
Clamped(n, num_lines) == max2(1, min2(num_lines, n))

\* where a click sends the line index: 5 or 1 back or forward, clamped to
\* 1..num_lines; no click leaves it
ButtonTargets(event, line_idx, num_lines) ==
    IF event = "dec5" THEN {Clamped(line_idx - 5, num_lines)}
    ELSE IF event = "dec1" THEN {Clamped(line_idx - 1, num_lines)}
    ELSE IF event = "inc1" THEN {Clamped(line_idx + 1, num_lines)}
    ELSE IF event = "inc5" THEN {Clamped(line_idx + 5, num_lines)}
    ELSE {line_idx}

\* the story selection of a run: the chosen story is stored; a stored story
\* that differs from it puts the line index at 1, an equal one leaves the
\* line index alone
StorySelectionStep ==
    pc = "idle" =>
       /\ HasStoredStory(ret') /\ StoredStory(ret') = ret'.chosen_story_name
       /\ HasStoredStory(ret) /\ ret'.chosen_story_name # StoredStory(ret)
             => StoredLine(ret') = 1
       /\ HasStoredStory(ret) /\ ret'.chosen_story_name = StoredStory(ret)
             => StoredLine(ret') = StoredLine(ret)

\* the navigation widgets of a run: the line index ends where the clicked
\* button sends it or at the value the slider returned, and stays when no
\* button was clicked and the slider returned the value it was created with
NavigationStep ==
    pc = "nav" =>
       LET line_idx == IF Has(ret.ss, "line_idx") THEN ret.ss.line_idx ELSE 1
           targets == ButtonTargets(call.event, line_idx, ret.num_lines)
           slider == ret'.slider
       IN  /\ StoredLine(ret') \in
                 targets \cup {v \in {slider.state} : slider.rendered}
           /\ slider.rendered /\ slider.state = slider.value
                 => StoredLine(ret') \in targets

\* the display of a run leaves the line index alone
DisplayStep == pc = "render" => StoredLine(ret') = StoredLine(ret)

\* C19: in both scripts, a run whose chosen story differs from the stored
\* story sets the line index to 1 before its navigation buttons and slider
\* are processed and stores the chosen story; a run whose chosen story is
\* the stored one changes the line index only by its buttons (by -5, -1,
\* +1, +5, clamped to 1..num_lines) or its slider.
C19_StoryChangeResets ==
    [][StorySelectionStep /\ NavigationStep /\ DisplayStep]_vars

(***************************************************************************)
(* Reclassified lines in the displayed rows                                *)
(***************************************************************************)
OtherSection(sec) == IF sec = "literal" THEN "ai" ELSE "literal"

\* the text of a bullet line stands somewhere in a cell
Occurs(cell, line) == line # <<>> /\ SearchI(cell, line) # -1

\* no line of the bucket of sec of the k-th model stands in a cell of that
\* model in a row of the other section
NotInOtherSection(sec, k) ==
    \A lines \in {SectionLines(sec, ret.model_names[k])} :
    \A rows \in {SectionRows(OtherSection(sec))} :
        \A i \in 1..Len(lines) : \A r \in 1..Len(rows) :
            ~Occurs(rows[r][k + 1], lines[i])

\* C20: for every model cell and toggle setting, a bullet line assigned to
\* the free-translation bucket does not stand in a literal-section row of
\* that model, and a bullet line assigned to the literal bucket does not
\* stand in an AI English Translation row of that model, also when a
\* section shows its full section text because its own bucket is empty.
C20_MovedNotCopied ==
    DoneDisplay =>
        \A sec \in DetailSections : \A k \in 1..Len(ret.model_names) :
            NotInOtherSection(sec, k)

=============================================================================
